---- MODULE Spec2Model ----
(***************************************************************************)
(* A model of roxy, a Lox front end: the scanner of src/src/lib.rs, the    *)
(* recursive-descent parser of src/src/parser.rs and the evaluator of      *)
(* src/src/interpreter.rs.                                                 *)
(*                                                                         *)
(* A source is a sequence of code points, each written as a one-character  *)
(* string; EAcute stands for a code point whose UTF-8 encoding takes two   *)
(* bytes.  The scanner's cursor counts code points (chars().nth), while    *)
(* String::len and string slices count bytes; both are modelled.           *)
(***************************************************************************)
EXTENDS Integers, Sequences, FiniteSets, TLC

VARIABLES
    \* Scanner: its fields, where scan_tokens stands, the panic that ended
    \* it, and the number of scan_tokens calls.
    source, tokens, start, current, line, scan_pc, err, calls,
    \* Parser: its fields tokens and current, where the parser stands, the
    \* latest public call and the position it began at, what expression()
    \* returned, the statement list of parse(), the panic (message and
    \* reported token), and what was written to standard output.
    ptokens, pcurrent, pstatus, pop, pstart, result, statements, perr, pfound, pout,
    \* Interpreter: the expression given to eval, where the call stands, the
    \* value it returned and the panic that ended it.
    ast, estatus, evalue, everr,
    \* Interpreter::interpret: the statements it was given, how many of them
    \* were executed, where the call stands, the panic that ended it, and
    \* the lines that execute wrote to standard output.
    program, executed, xstatus, xerr, output

scan_vars == <<source, tokens, start, current, line, scan_pc, err, calls>>
parser_vars == <<ptokens, pcurrent, pstatus, pop, pstart, result, statements,
                 perr, pfound, pout>>
interp_vars == <<ast, estatus, evalue, everr>>
exec_vars == <<program, executed, xstatus, xerr, output>>
vars == <<scan_vars, parser_vars, interp_vars, exec_vars>>

(***************************************************************************)
(* Bounds of the model.                                                    *)
(***************************************************************************)
MaxLen == 4
MaxWords == 1
MaxCalls == 2
MaxTokens == 4
MaxChain == 3
MaxInit == 3
MaxLiteralLen == 3
MaxNumber == 2
MaxSource == 5
MaxStmts == 2
MaxPieces == 2
MaxParse == 4

(***************************************************************************)
(* Characters.                                                             *)
(***************************************************************************)
Quote == "\""
Newline == "\n"
EAcute == "U+00E9"
NUL == "NUL"
NoChar == "None"

Digits == {"0", "1", "2", "3", "4", "5", "6", "7", "8", "9"}
Lower == {"a", "b", "c", "d", "e", "f", "g", "h", "i", "j", "k", "l", "m",
          "n", "o", "p", "q", "r", "s", "t", "u", "v", "w", "x", "y", "z"}
Upper == {"A", "B", "C", "D", "E", "F", "G", "H", "I", "J", "K", "L", "M",
          "N", "O", "P", "Q", "R", "S", "T", "U", "V", "W", "X", "Y", "Z"}

Utf8Len(c) == IF c = EAcute THEN 2 ELSE 1

RECURSIVE ByteOffset(_, _)
ByteOffset(s, k) == IF k = 0 THEN 0 ELSE ByteOffset(s, k - 1) + Utf8Len(s[k])

\* String::len(): the length in bytes.
SourceLen(s) == ByteOffset(s, Len(s))

\* chars().nth(i): the i-th code point (from 0), or None.
Nth(s, i) == IF i < Len(s) THEN s[i + 1] ELSE NoChar

\* &s[a..b]: a byte-indexed slice; it panics unless a <= b <= len and both
\* lie on character boundaries.
SliceOk(s, a, b) ==
    /\ a <= b
    /\ \E i \in 0..Len(s) : ByteOffset(s, i) = a
    /\ \E j \in 0..Len(s) : ByteOffset(s, j) = b

Slice(s, a, b) ==
    LET i == CHOOSE i \in 0..Len(s) : ByteOffset(s, i) = a
        j == CHOOSE j \in 0..Len(s) : ByteOffset(s, j) = b
    IN  SubSeq(s, i + 1, j)

(***************************************************************************)
(* Numbers.  An f64 literal is kept as the decimal m / 10^e with no        *)
(* trailing zero in the fraction, so that equal values are equal records.  *)
(***************************************************************************)
NoNum == [m |-> 0, e |-> 0]

DigitVal(c) == CHOOSE d \in 0..9 : <<"0", "1", "2", "3", "4", "5", "6", "7", "8", "9">>[d + 1] = c

RECURSIVE Normalize(_)
Normalize(n) ==
    IF n.e > 0 /\ n.m % 10 = 0 THEN Normalize([m |-> n.m \div 10, e |-> n.e - 1]) ELSE n

RECURSIVE DecimalOf(_, _, _, _)
DecimalOf(text, k, m, e) ==
    IF k > Len(text) THEN [m |-> m, e |-> e]
    ELSE IF text[k] = "." THEN DecimalOf(text, k + 1, m, 0)
    ELSE DecimalOf(text, k + 1, 10 * m + DigitVal(text[k]), IF e < 0 THEN e ELSE e + 1)

\* str::parse::<f64>() on the forms the model's alphabet can produce: digits
\* with at most one '.', at least one digit, nothing else (no surrounding
\* whitespace is accepted).
ParseOk(text) ==
    /\ \A k \in 1..Len(text) : text[k] \in Digits \cup {"."}
    /\ \E k \in 1..Len(text) : text[k] \in Digits
    /\ Cardinality({k \in 1..Len(text) : text[k] = "."}) <= 1

ParseF64(text) ==
    LET d == DecimalOf(text, 1, 0, -1)
    IN  Normalize([m |-> d.m, e |-> IF d.e < 0 THEN 0 ELSE d.e])

(***************************************************************************)
(* Scanner (src/src/lib.rs).  A scanner state st is the record of the      *)
(* fields tokens, start, current, line, plus err: the panic that ended the *)
(* call, or "none".                                                        *)
(***************************************************************************)
\* A faulty variant: the position before the lexeme's last character.
Token_pos_before(kind, text, num, ln, pos) ==
    [kind |-> kind, text |-> text, num |-> num, line |-> ln, pos |-> pos - 1]

Token(kind, text, num, ln, pos) ==
    [kind |-> kind, text |-> text, num |-> num, line |-> ln, pos |-> pos]

Panic(st, msg) == [st EXCEPT !.err = msg]

add_token(st, token) == [st EXCEPT !.tokens = Append(@, token)]

\* A token without payload, built at the current line and cursor.
Emit(st, kind) == add_token(st, Token(kind, <<>>, NoNum, st.line, st.current))

is_at_end(src, st) == st.current >= SourceLen(src)

is_lox_digit(c) == c \in Digits
is_lox_alphabetic(c) == c \in Lower \/ c \in Upper \/ c = "_"
is_lox_alphanumeric(c) == is_lox_alphabetic(c) \/ is_lox_digit(c)

\* peek(): '\0' at the end, else chars().nth(current).unwrap(); NoChar
\* stands for the unwrap of None, which the caller turns into a panic.
peek(src, st) == IF is_at_end(src, st) THEN NUL ELSE Nth(src, st.current)

peek_next(src, st) ==
    IF st.current + 1 >= SourceLen(src) THEN NUL ELSE Nth(src, st.current + 1)

\* advance(): the cursor moves first, then the character is unwrapped.
advance(src, st) ==
    LET st1 == [st EXCEPT !.current = @ + 1]
    IN  IF Nth(src, st.current) = NoChar THEN Panic(st1, "unwrap") ELSE st1

\* match_char(c): <<matched, state>>.
match_char(src, st, c) ==
    IF is_at_end(src, st) THEN <<FALSE, st>>
    ELSE IF Nth(src, st.current) = NoChar THEN <<FALSE, Panic(st, "unwrap")>>
    ELSE IF Nth(src, st.current) # c THEN <<FALSE, st>>
    ELSE <<TRUE, [st EXCEPT !.current = @ + 1]>>

\* A faulty variant: no lookahead, the one-character token at once.
operator_arm_no_lookahead(src, st, two, one) == Emit(st, one)

\* The arms of '!', '=', '<', '>': one character of lookahead.
operator_arm(src, st, two, one) ==
    LET m == match_char(src, st, "=")
    IN  IF m[2].err # "none" THEN m[2]
        ELSE IF m[1] THEN Emit(m[2], two) ELSE Emit(m[2], one)

\* while self.peek() != '\n' && !self.is_at_end() { self.advance(); }
RECURSIVE comment_loop(_, _)
comment_loop(src, st) ==
    IF peek(src, st) = NoChar THEN Panic(st, "unwrap")
    ELSE IF peek(src, st) # Newline /\ ~is_at_end(src, st)
         THEN comment_loop(src, advance(src, st))
         ELSE st

slash_arm(src, st) ==
    LET m == match_char(src, st, "/")
    IN  IF m[2].err # "none" THEN m[2]
        ELSE IF m[1] THEN comment_loop(src, m[2]) ELSE Emit(m[2], "Slash")

\* The loop of string(): every character that is not a newline adds one to
\* the line counter.
RECURSIVE string_loop(_, _)
string_loop(src, st) ==
    IF peek(src, st) = NoChar THEN Panic(st, "unwrap")
    ELSE IF peek(src, st) # Quote /\ ~is_at_end(src, st)
         THEN string_loop(src,
                  advance(src, IF peek(src, st) # Newline
                               THEN [st EXCEPT !.line = @ + 1] ELSE st))
         ELSE st

\* The end of string(): the closing quote, the slice, the token.
string_close(src, st1) ==
    LET st2 == advance(src, st1)
    IN  IF st2.err # "none" THEN st2
        ELSE IF ~SliceOk(src, st2.start + 1, st2.current - 1)
             THEN Panic(st2, "slice")
        ELSE add_token(st2,
                 Token("StringLiteral",
                       Slice(src, st2.start + 1, st2.current - 1),
                       NoNum, st2.line, st2.current))

\* A faulty variant: the end of input closes the literal silently.
string_silent_eof(src, st) ==
    LET st1 == string_loop(src, st)
    IN  IF st1.err # "none" \/ is_at_end(src, st1) THEN st1
        ELSE string_close(src, st1)

string(src, st) ==
    LET st1 == string_loop(src, st)
    IN  IF st1.err # "none" THEN st1
        ELSE IF is_at_end(src, st1) THEN Panic(st1, "unterminated")
        ELSE string_close(src, st1)

\* while Scanner::is_lox_digit(self.peek()) { self.advance(); }
RECURSIVE digit_loop(_, _)
digit_loop(src, st) ==
    IF peek(src, st) = NoChar THEN Panic(st, "unwrap")
    ELSE IF is_lox_digit(peek(src, st)) THEN digit_loop(src, advance(src, st))
    ELSE st

number(src, st) ==
    LET st1 == digit_loop(src, st)
        dot == /\ st1.err = "none"
               /\ peek(src, st1) = "."
               /\ peek_next(src, st1) # NoChar
               /\ is_lox_digit(peek_next(src, st1))
        st2 == IF st1.err # "none" THEN st1
               ELSE IF peek(src, st1) = "." /\ peek_next(src, st1) = NoChar
                    THEN Panic(st1, "unwrap")
               ELSE IF dot THEN digit_loop(src, advance(src, st1))
               ELSE st1
    IN  IF st2.err # "none" THEN st2
        ELSE IF ~SliceOk(src, st2.start, st2.current) THEN Panic(st2, "slice")
        ELSE LET raw == Slice(src, st2.start, st2.current)
             IN  IF ~ParseOk(raw) THEN Panic(st2, "parse_f64")
                 ELSE add_token(st2,
                          Token("NumberLiteral", <<>>, ParseF64(raw),
                                st2.line, st2.current))

\* The keyword table of identifier().
Keywords ==
    {<<<<"a", "n", "d">>, "And">>,
     <<<<"c", "l", "a", "s", "s">>, "Class">>,
     <<<<"e", "l", "s", "e">>, "Else">>,
     <<<<"f", "a", "l", "s", "e">>, "False">>,
     <<<<"f", "o", "r">>, "For">>,
     <<<<"f", "u", "n">>, "Fun">>,
     <<<<"i", "f">>, "If">>,
     <<<<"n", "i", "l">>, "Nil">>,
     <<<<"o", "r">>, "Or">>,
     <<<<"p", "r", "i", "n", "t">>, "Print">>,
     <<<<"r", "e", "t", "u", "r", "n">>, "Return">>,
     <<<<"s", "u", "p", "e", "r">>, "Super">>,
     <<<<"t", "h", "i", "s">>, "This">>,
     <<<<"t", "r", "u", "e">>, "True">>,
     <<<<"v", "a", "r">>, "Var">>,
     <<<<"w", "h", "i", "l", "e">>, "While">>}

\* match text { "and" => ..., _ => Identifier(text) }
keyword_or_identifier(text, ln, pos) ==
    IF \E kw \in Keywords : kw[1] = text
    THEN Token((CHOOSE kw \in Keywords : kw[1] = text)[2], <<>>, NoNum, ln, pos)
    ELSE Token("Identifier", text, NoNum, ln, pos)

\* while Scanner::is_lox_alphanumeric(self.peek()) { self.advance(); }
RECURSIVE alnum_loop(_, _)
alnum_loop(src, st) ==
    IF peek(src, st) = NoChar THEN Panic(st, "unwrap")
    ELSE IF is_lox_alphanumeric(peek(src, st)) THEN alnum_loop(src, advance(src, st))
    ELSE st

identifier(src, st) ==
    LET st1 == alnum_loop(src, st)
    IN  IF st1.err # "none" THEN st1
        ELSE IF ~SliceOk(src, st1.start, st1.current) THEN Panic(st1, "slice")
        ELSE add_token(st1,
                 keyword_or_identifier(Slice(src, st1.start, st1.current),
                                       st1.line, st1.current))

scan_token(src, st0) ==
    LET st == advance(src, st0)
        c == Nth(src, st0.current)
    IN  IF st.err # "none" THEN st
        ELSE CASE c = "(" -> Emit(st, "LeftParen")
               [] c = ")" -> Emit(st, "RightParen")
               [] c = "{" -> Emit(st, "LeftBrace")
               [] c = "}" -> Emit(st, "RightBrace")
               [] c = "," -> Emit(st, "Comma")
               [] c = "." -> Emit(st, "Dot")
               [] c = "-" -> Emit(st, "Minus")
               [] c = "+" -> Emit(st, "Plus")
               [] c = ";" -> Emit(st, "Semicolon")
               [] c = "*" -> Emit(st, "Star")
               [] c \in {" ", "\r", "\t"} -> st
               [] c = Newline -> [st EXCEPT !.line = @ + 1]
               [] c = "!" -> operator_arm(src, st, "BangEqual", "Bang")
               [] c = "=" -> operator_arm(src, st, "EqualEqual", "Equal")
               [] c = "<" -> operator_arm(src, st, "LessEqual", "Less")
               [] c = ">" -> operator_arm(src, st, "GreaterEqual", "Greater")
               [] c = "/" -> slash_arm(src, st)
               [] c = Quote -> string(src, st)
               [] is_lox_digit(c) -> number(src, st)
               [] is_lox_alphabetic(c) -> identifier(src, st)
               [] OTHER -> Panic(st, "todo")

ScannerState == [tokens |-> tokens, start |-> start, current |-> current,
                 line |-> line, err |-> "none"]

(***************************************************************************)
(* Parser (src/src/parser.rs).  Expressions and statements are records; a  *)
(* parser state p holds the read position current, the panic that ended    *)
(* the call (err, with the token it reports in found) and out, what the    *)
(* parser wrote to standard output.  Every parsing function returns the    *)
(* record [p |-> state, e |-> expression].                                 *)
(***************************************************************************)
NoToken == Token("None", <<>>, NoNum, 0, 0)

LiteralNumber(n) == [type |-> "Literal", lit |-> "Number", num |-> n, text |-> <<>>, bool |-> FALSE]
LiteralString(t) == [type |-> "Literal", lit |-> "String", num |-> NoNum, text |-> t, bool |-> FALSE]
LiteralBoolean(b) == [type |-> "Literal", lit |-> "Boolean", num |-> NoNum, text |-> <<>>, bool |-> b]
LiteralNil == [type |-> "Literal", lit |-> "Nil", num |-> NoNum, text |-> <<>>, bool |-> FALSE]
Binary(l, op, r) == [type |-> "Binary", left |-> l, operator |-> op, right |-> r]
Unary(op, r) == [type |-> "Unary", operator |-> op, right |-> r]
Grouping(e) == [type |-> "Grouping", expr |-> e]
NoExpr == [type |-> "None"]

StmtExpression(e) == [type |-> "Expression", name |-> <<>>, expr |-> e]
StmtPrint(e) == [type |-> "Print", name |-> <<>>, expr |-> e]
StmtVar(name, e) == [type |-> "Var", name |-> name, expr |-> e]
NoStmt == [type |-> "None", name |-> <<>>, expr |-> NoExpr]

PPanic(p, msg, tok) == [p EXCEPT !.err = msg, !.found = tok]
Failed(p) == [p |-> p, e |-> NoExpr]

\* self.tokens[self.current] is an index in range.
InRange(toks, p) == p.current < Len(toks)

p_peek(toks, p) == toks[p.current + 1]

p_is_at_end(toks, p) == p_peek(toks, p).kind = "EOF"

p_check(toks, p, kind) ==
    IF p_is_at_end(toks, p) THEN FALSE ELSE p_peek(toks, p).kind = kind

\* previous(): self.tokens[self.current - 1]
PreviousInRange(toks, p) == p.current >= 1 /\ p.current - 1 < Len(toks)

p_previous(toks, p) == toks[p.current]

\* A faulty variant: the position moves on at EOF as well.
p_advance_past_eof(toks, p) ==
    IF ~InRange(toks, p) THEN PPanic(p, "index out of bounds", NoToken)
    ELSE [p EXCEPT !.current = @ + 1]

\* advance(): one token forward unless at EOF, then previous().
p_advance(toks, p) ==
    IF ~InRange(toks, p) THEN PPanic(p, "index out of bounds", NoToken)
    ELSE LET p1 == IF ~p_is_at_end(toks, p) THEN [p EXCEPT !.current = @ + 1] ELSE p
         IN  IF ~PreviousInRange(toks, p1) THEN PPanic(p1, "index out of bounds", NoToken)
             ELSE p1

\* A faulty variant: the position moves on whether or not a kind matched.
match_tokens_eager(toks, p, kinds) ==
    [matched |-> \E k \in kinds : toks[p.current + 1].kind = k,
     p |-> [p EXCEPT !.current = @ + 1]]

\* match_tokens(kinds): [matched, p]; the first kind that check() accepts
\* advances the position.
match_tokens(toks, p, kinds) ==
    IF ~InRange(toks, p)
    THEN [matched |-> FALSE, p |-> PPanic(p, "index out of bounds", NoToken)]
    ELSE IF \E k \in kinds : p_check(toks, p, k)
         THEN [matched |-> TRUE, p |-> p_advance(toks, p)]
         ELSE [matched |-> FALSE, p |-> p]

consume(toks, p, kind, err_msg) ==
    IF ~InRange(toks, p) THEN PPanic(p, "index out of bounds", NoToken)
    ELSE IF p_check(toks, p, kind) THEN p_advance(toks, p)
    ELSE PPanic(p, err_msg, p_peek(toks, p))

\* literal(): the token at the read position as a Literal, or Err(()) for
\* any other kind (ok is FALSE); the position moves on in both cases, a
\* position past the last token panics.
literal(toks, p) ==
    IF ~InRange(toks, p)
    THEN [p |-> PPanic(p, "index out of bounds", NoToken), e |-> NoExpr, ok |-> FALSE]
    ELSE LET token == toks[p.current + 1]
             value == CASE token.kind = "StringLiteral" -> LiteralString(token.text)
                        [] token.kind = "NumberLiteral" -> LiteralNumber(token.num)
                        [] token.kind = "True" -> LiteralBoolean(TRUE)
                        [] token.kind = "False" -> LiteralBoolean(FALSE)
                        [] token.kind = "Nil" -> LiteralNil
                        [] OTHER -> NoExpr
         IN  [p |-> [p EXCEPT !.current = @ + 1], e |-> value, ok |-> value # NoExpr]

EqualityOperator ==
    ("BangEqual" :> "NotEqual") @@ ("EqualEqual" :> "EqualEqual")
ComparisonOperator ==
    ("Greater" :> "GreaterThan") @@ ("GreaterEqual" :> "GreaterThanEqual")
    @@ ("Less" :> "LessThan") @@ ("LessEqual" :> "LessThanEqual")
TermOperator == ("Minus" :> "Minus") @@ ("Plus" :> "Plus")
FactorOperator == ("Slash" :> "Divide") @@ ("Star" :> "Multiply")
UnaryOperator == ("Bang" :> "Not") @@ ("Minus" :> "Minus")

\* A faulty variant: the running expression becomes the right child.
fold_swapped(expr, operator, right) == Binary(right, operator, expr)

\* expr = Expr::Binary(Binary { left: expr, operator, right })
fold(expr, operator, right) == Binary(expr, operator, right)

\* The operators of the four binary levels, lowest binding power first:
\* equality, comparison, term, factor.
\* A faulty variant: the levels of term and factor change places, so that
\* * and / bind less than + and -.
LevelOperator_term_below_factor ==
    <<EqualityOperator, ComparisonOperator, FactorOperator, TermOperator>>

LevelOperator == <<EqualityOperator, ComparisonOperator, TermOperator, FactorOperator>>

RECURSIVE binary_level(_, _, _), binary_loop(_, _, _), unary(_, _), primary(_, _)

\* The four binary levels are one function in four copies: parse an operand
\* at the next level, then fold while an operator of this level matches.
\* while match_tokens([...]) { operator = previous(); right = <next level>;
\*                             expr = Binary { left: expr, operator, right } }
binary_loop(level, toks, r) ==
    LET folded(operator, right) ==
            IF right.p.err # "none" THEN Failed(right.p)
            ELSE binary_loop(level, toks,
                             [p |-> right.p, e |-> fold(r.e, operator, right.e)])
        matched(m) ==
            IF m.p.err # "none" THEN Failed(m.p)
            ELSE IF ~m.matched THEN r
            ELSE folded(LevelOperator[level][p_previous(toks, m.p).kind],
                        IF level < Len(LevelOperator)
                        THEN binary_level(level + 1, toks, m.p)
                        ELSE unary(toks, m.p))
    IN  IF r.p.err # "none" THEN Failed(r.p)
        ELSE matched(match_tokens(toks, r.p, DOMAIN LevelOperator[level]))

binary_level(level, toks, p) ==
    binary_loop(level, toks,
                IF level < Len(LevelOperator)
                THEN binary_level(level + 1, toks, p)
                ELSE unary(toks, p))

factor(toks, p) == binary_level(4, toks, p)
term(toks, p) == binary_level(3, toks, p)
comparison(toks, p) == binary_level(2, toks, p)
equality(toks, p) == binary_level(1, toks, p)
expression(toks, p) == equality(toks, p)

\* unary(): a matched prefix operator is written to standard output
\* (print!("{:?}", operator)) before the operand is parsed.
unary(toks, p) ==
    LET negated(tok, right) ==
            IF right.p.err # "none" THEN Failed(right.p)
            ELSE [p |-> right.p, e |-> Unary(UnaryOperator[tok.kind], right.e)]
        printed(m, tok) ==
            negated(tok, unary(toks, [m.p EXCEPT !.out = Append(@, tok)]))
        matched(m) ==
            IF m.p.err # "none" THEN Failed(m.p)
            ELSE IF m.matched THEN printed(m, p_previous(toks, m.p))
            ELSE primary(toks, p)
    IN  matched(match_tokens(toks, p, DOMAIN UnaryOperator))

primary(toks, p) ==
    LET leaf(a, e) == IF a.err # "none" THEN Failed(a) ELSE [p |-> a, e |-> e]
        closed(inner, c) ==
            IF c.err # "none" THEN Failed(c) ELSE [p |-> c, e |-> Grouping(inner.e)]
        grouped(inner) ==
            IF inner.p.err # "none" THEN Failed(inner.p)
            ELSE closed(inner, consume(toks, inner.p, "RightParen",
                                       "Expect ')' after expression"))
        keyword(f, t, n, l) ==
            IF f.p.err # "none" THEN Failed(f.p)
            ELSE IF f.matched THEN [p |-> f.p, e |-> LiteralBoolean(FALSE)]
            ELSE IF t.matched THEN [p |-> t.p, e |-> LiteralBoolean(TRUE)]
            ELSE IF n.matched THEN [p |-> n.p, e |-> LiteralNil]
            ELSE IF p_peek(toks, p).kind = "NumberLiteral"
                 THEN leaf(p_advance(toks, p), LiteralNumber(p_peek(toks, p).num))
            ELSE IF p_peek(toks, p).kind = "StringLiteral"
                 THEN leaf(p_advance(toks, p), LiteralString(p_peek(toks, p).text))
            ELSE IF l.matched THEN grouped(expression(toks, l.p))
            ELSE Failed(PPanic(p, "is this part unreachable?", NoToken))
    IN  keyword(match_tokens(toks, p, {"False"}), match_tokens(toks, p, {"True"}),
                match_tokens(toks, p, {"Nil"}), match_tokens(toks, p, {"LeftParen"}))

\* A statement function returns [p |-> state, s |-> statement].
FailedStmt(p) == [p |-> p, s |-> NoStmt]

\* let e = self.expression(); self.consume(Semicolon, msg); the statement s
terminated(toks, e, msg, s) ==
    LET consumed(c) == IF c.err # "none" THEN FailedStmt(c) ELSE [p |-> c, s |-> s]
    IN  IF e.p.err # "none" THEN FailedStmt(e.p)
        ELSE consumed(consume(toks, e.p, "Semicolon", msg))

print_statement(toks, p) ==
    LET printed(value) ==
            terminated(toks, value, "Expect ';' after value.", StmtPrint(value.e))
    IN  printed(expression(toks, p))

expression_statement(toks, p) ==
    LET evaluated(expr) ==
            terminated(toks, expr, "Expect ';' after expression.", StmtExpression(expr.e))
    IN  evaluated(expression(toks, p))

statement(toks, p) ==
    LET advanced(a) == IF a.err # "none" THEN FailedStmt(a) ELSE print_statement(toks, a)
    IN  IF ~InRange(toks, p) THEN FailedStmt(PPanic(p, "index out of bounds", NoToken))
        ELSE IF p_peek(toks, p).kind = "Print" THEN advanced(p_advance(toks, p))
        ELSE expression_statement(toks, p)

\* A faulty variant: the initializer that was parsed is dropped.
var_initializer_dropped(m, init) == LiteralNil

\* let mut initializer = Nil; if match_tokens([Equal]) { initializer = ... }
var_initializer(m, init) == IF m.matched THEN init.e ELSE LiteralNil

\* The name is read first and checked last: after the initializer and the
\* semicolon have been consumed.
var_declaration(toks, p) ==
    LET named(name, c, initializer) ==
            IF c.err # "none" THEN FailedStmt(c)
            ELSE IF name.kind = "Identifier"
                 THEN [p |-> c, s |-> StmtVar(name.text, initializer)]
            ELSE FailedStmt(PPanic(c, "Variable declarations require an identifier",
                                   NoToken))
        initialized(name, m, init) ==
            IF init.p.err # "none" THEN FailedStmt(init.p)
            ELSE named(name,
                       consume(toks, init.p, "Semicolon",
                               "Expect ';' after variable declaration"),
                       var_initializer(m, init))
        matched(name, m) ==
            IF m.p.err # "none" THEN FailedStmt(m.p)
            ELSE initialized(name, m,
                             IF m.matched THEN expression(toks, m.p)
                             ELSE [p |-> m.p, e |-> LiteralNil])
        advanced(name, a) ==
            IF a.err # "none" THEN FailedStmt(a)
            ELSE matched(name, match_tokens(toks, a, {"Equal"}))
    IN  IF ~InRange(toks, p) THEN FailedStmt(PPanic(p, "index out of bounds", NoToken))
        ELSE advanced(p_peek(toks, p), p_advance(toks, p))

\* A faulty variant: a failed declaration is caught and stands for nil, with
\* the parser where the declaration began.
declaration_resuming(toks, p) ==
    LET caught(d) ==
            IF d.p.err = "none" THEN d
            ELSE [p |-> [p EXCEPT !.out = d.p.out], s |-> StmtExpression(LiteralNil)]
        matched(m) ==
            IF m.p.err # "none" THEN FailedStmt(m.p)
            ELSE IF m.matched THEN var_declaration(toks, m.p)
            ELSE statement(toks, p)
    IN  caught(matched(match_tokens(toks, p, {"Var"})))

declaration(toks, p) ==
    LET matched(m) ==
            IF m.p.err # "none" THEN FailedStmt(m.p)
            ELSE IF m.matched THEN var_declaration(toks, m.p)
            ELSE statement(toks, p)
    IN  matched(match_tokens(toks, p, {"Var"}))

(***************************************************************************)
(* Interpreter (src/src/interpreter.rs).  A Number holds an f64: finite    *)
(* (a sign and the fraction n/d in lowest terms, so that zero is signed),  *)
(* infinite (a sign) or NaN.  Finite results are kept exact.  eval returns *)
(* [ok, v, err]: the value, or the message of the panic that ended it.     *)
(***************************************************************************)
F64(cls, neg, n, d) == [cls |-> cls, neg |-> neg, n |-> n, d |-> d]

NaN == F64("nan", FALSE, 0, 1)
Infinity(neg) == F64("inf", neg, 0, 1)

RECURSIVE Gcd(_, _)
Gcd(a, b) == IF b = 0 THEN a ELSE Gcd(b, a % b)

Finite(neg, n, d) == F64("finite", neg, n \div Gcd(n, d), d \div Gcd(n, d))

RECURSIVE Exp10(_)
Exp10(k) == IF k = 0 THEN 1 ELSE 10 * Exp10(k - 1)

\* The f64 of a number literal m / 10^e.
f64_of(x) == Finite(FALSE, x.m, Exp10(x.e))

is_nan(x) == x.cls = "nan"
is_inf(x) == x.cls = "inf"
is_zero(x) == x.cls = "finite" /\ x.n = 0

\* The numerator with its sign.
Signed(x) == IF x.neg THEN 0 - x.n ELSE x.n
Abs(i) == IF i < 0 THEN 0 - i ELSE i

\* -n
f64_neg(x) == IF is_nan(x) THEN NaN ELSE [x EXCEPT !.neg = ~@]

\* n1 + n2
f64_add(a, b) ==
    IF is_nan(a) \/ is_nan(b) THEN NaN
    ELSE IF is_inf(a) /\ is_inf(b) THEN (IF a.neg = b.neg THEN a ELSE NaN)
    ELSE IF is_inf(a) THEN a
    ELSE IF is_inf(b) THEN b
    ELSE LET sum == Signed(a) * b.d + Signed(b) * a.d
         IN  IF sum = 0 THEN Finite(a.neg /\ b.neg, 0, 1)
             ELSE Finite(sum < 0, Abs(sum), a.d * b.d)

\* n1 - n2
f64_sub(a, b) == f64_add(a, f64_neg(b))

\* n1 * n2
f64_mul(a, b) ==
    IF is_nan(a) \/ is_nan(b) THEN NaN
    ELSE IF (is_inf(a) /\ is_zero(b)) \/ (is_zero(a) /\ is_inf(b)) THEN NaN
    ELSE IF is_inf(a) \/ is_inf(b) THEN Infinity(a.neg # b.neg)
    ELSE Finite(a.neg # b.neg, a.n * b.n, a.d * b.d)

\* n1 / n2
f64_div(a, b) ==
    IF is_nan(a) \/ is_nan(b) THEN NaN
    ELSE IF (is_inf(a) /\ is_inf(b)) \/ (is_zero(a) /\ is_zero(b)) THEN NaN
    ELSE IF is_inf(a) \/ is_zero(b) THEN Infinity(a.neg # b.neg)
    ELSE IF is_inf(b) THEN Finite(a.neg # b.neg, 0, 1)
    ELSE Finite(a.neg # b.neg, a.n * b.d, a.d * b.n)

\* The order of two f64 that are not NaN.
Below(a, b) ==
    IF is_inf(a) THEN a.neg /\ ~(is_inf(b) /\ b.neg)
    ELSE IF is_inf(b) THEN ~b.neg
    ELSE Signed(a) * b.d < Signed(b) * a.d

\* n1 < n2, n1 == n2, n1 <= n2 on f64: every comparison with NaN is false.
f64_lt(a, b) == ~is_nan(a) /\ ~is_nan(b) /\ Below(a, b)
f64_eq(a, b) == ~is_nan(a) /\ ~is_nan(b) /\ ~Below(a, b) /\ ~Below(b, a)
f64_le(a, b) == f64_lt(a, b) \/ f64_eq(a, b)

\* enum Value
ValueNumber(x) == [type |-> "Number", num |-> x, text |-> <<>>, bool |-> FALSE]
ValueString(t) == [type |-> "String", num |-> NaN, text |-> t, bool |-> FALSE]
ValueBoolean(b) == [type |-> "Boolean", num |-> NaN, text |-> <<>>, bool |-> b]
ValueNil == [type |-> "Nil", num |-> NaN, text |-> <<>>, bool |-> FALSE]
NoValue == [type |-> "None", num |-> NaN, text |-> <<>>, bool |-> FALSE]

\* #[derive(PartialEq)] on Value: the same variant and equal payloads, the
\* payloads of Number compared as f64.
value_eq(left, right) ==
    /\ left.type = right.type
    /\ CASE left.type = "Number" -> f64_eq(left.num, right.num)
         [] left.type = "String" -> left.text = right.text
         [] left.type = "Boolean" -> left.bool = right.bool
         [] OTHER -> TRUE

Returns(v) == [ok |-> TRUE, v |-> v, err |-> "none"]
Panics(msg) == [ok |-> FALSE, v |-> NoValue, err |-> msg]

\* A faulty variant: the number zero and the empty string are falsy too.
is_truthy_zero_falsy(right) ==
    CASE right.type = "Nil" -> FALSE
      [] right.type = "Boolean" -> right.bool
      [] right.type = "Number" -> ~is_zero(right.num)
      [] right.type = "String" -> right.text # <<>>
      [] OTHER -> TRUE

\* fn is_truthy(right: &Value) -> bool
is_truthy(right) ==
    CASE right.type = "Nil" -> FALSE
      [] right.type = "Boolean" -> right.bool
      [] OTHER -> TRUE

\* The arms of match b.operator on the two evaluated operands.
numeric(left, right, v, msg) ==
    IF left.type = "Number" /\ right.type = "Number" THEN Returns(v) ELSE Panics(msg)

\* A faulty variant: Plus takes a Number with a String as well.
plus_arm_mixed(left, right) ==
    IF left.type = "Number" /\ right.type = "Number"
    THEN Returns(ValueNumber(f64_add(left.num, right.num)))
    ELSE IF left.type \in {"Number", "String"} /\ right.type \in {"Number", "String"}
    THEN Returns(ValueString(left.text \o right.text))
    ELSE Panics("You can only add strings or numbers")

\* BinaryOperator::Plus => match (left, right) { ... }
plus_arm(left, right) ==
    IF left.type = "Number" /\ right.type = "Number"
    THEN Returns(ValueNumber(f64_add(left.num, right.num)))
    ELSE IF left.type = "String" /\ right.type = "String"
    THEN Returns(ValueString(left.text \o right.text))
    ELSE Panics("You can only add strings or numbers")

binary_arm(operator, left, right) ==
    CASE operator = "Minus" ->
             numeric(left, right, ValueNumber(f64_sub(left.num, right.num)),
                     "You can only substract numbers")
      [] operator = "Plus" -> plus_arm(left, right)
      [] operator = "Multiply" ->
             numeric(left, right, ValueNumber(f64_mul(left.num, right.num)),
                     "You can only multiply numbers")
      [] operator = "Divide" ->
             numeric(left, right, ValueNumber(f64_div(left.num, right.num)),
                     "You can only multiply numbers")
      [] operator = "GreaterThan" ->
             numeric(left, right, ValueBoolean(f64_lt(right.num, left.num)),
                     "You can only multiply numbers")
      [] operator = "LessThan" ->
             numeric(left, right, ValueBoolean(f64_lt(left.num, right.num)),
                     "You can only multiply numbers")
      [] operator = "GreaterThanEqual" ->
             numeric(left, right, ValueBoolean(f64_le(right.num, left.num)),
                     "You can only multiply numbers")
      [] operator = "LessThanEqual" ->
             numeric(left, right, ValueBoolean(f64_le(left.num, right.num)),
                     "You can only multiply numbers")
      [] operator = "EqualEqual" -> Returns(ValueBoolean(value_eq(left, right)))
      [] operator = "NotEqual" -> Returns(ValueBoolean(~value_eq(left, right)))

\* The arms of match u.operator on the evaluated operand.
unary_arm(operator, right) ==
    CASE operator = "Minus" ->
             IF right.type = "Number" THEN Returns(ValueNumber(f64_neg(right.num)))
             ELSE Panics("You can only negate a number")
      [] operator = "Not" -> Returns(ValueBoolean(~is_truthy(right)))

\* match l { Literal::String(s) => Value::String(s.to_string()), ... }
\* A faulty variant: the fraction digits of a number are read as integer
\* digits, and every boolean as true.
literal_arm_integer(l) ==
    CASE l.lit = "String" -> ValueString(l.text)
      [] l.lit = "Number" -> ValueNumber(Finite(FALSE, l.num.m, 1))
      [] l.lit = "Boolean" -> ValueBoolean(TRUE)
      [] l.lit = "Nil" -> ValueNil

literal_arm(l) ==
    CASE l.lit = "String" -> ValueString(l.text)
      [] l.lit = "Number" -> ValueNumber(f64_of(l.num))
      [] l.lit = "Boolean" -> ValueBoolean(l.bool)
      [] l.lit = "Nil" -> ValueNil

\* A faulty variant: the right operand of a Binary node is evaluated first.
RECURSIVE eval_right_first(_)
eval_right_first(expr) ==
    LET binary(left, right) ==
            IF ~right.ok THEN right
            ELSE IF ~left.ok THEN left
            ELSE binary_arm(expr.operator, left.v, right.v)
        unary_of(right) ==
            IF ~right.ok THEN right ELSE unary_arm(expr.operator, right.v)
    IN  CASE expr.type = "Binary" ->
                 binary(eval_right_first(expr.left), eval_right_first(expr.right))
          [] expr.type = "Grouping" -> eval_right_first(expr.expr)
          [] expr.type = "Literal" -> Returns(literal_arm(expr))
          [] expr.type = "Unary" -> unary_of(eval_right_first(expr.right))

\* eval(expr): both operands of a Binary node are evaluated, the left one
\* first, before the operator is looked at; a panic in an operand ends the
\* evaluation.
RECURSIVE eval(_)
eval(expr) ==
    LET binary(left, right) ==
            IF ~left.ok THEN left
            ELSE IF ~right.ok THEN right
            ELSE binary_arm(expr.operator, left.v, right.v)
        unary_of(right) ==
            IF ~right.ok THEN right ELSE unary_arm(expr.operator, right.v)
    IN  CASE expr.type = "Binary" -> binary(eval(expr.left), eval(expr.right))
          [] expr.type = "Grouping" -> eval(expr.expr)
          [] expr.type = "Literal" -> Returns(literal_arm(expr))
          [] expr.type = "Unary" -> unary_of(eval(expr.right))

(***************************************************************************)
(* Interpreter::execute and the text that println!("{}", v) writes.  A     *)
(* line is the sequence of its characters, without the newline.            *)
(***************************************************************************)
DigitChar(d) == <<"0", "1", "2", "3", "4", "5", "6", "7", "8", "9">>[d + 1]

\* The decimal digits of a natural number.
RECURSIVE NatDigits(_)
NatDigits(n) ==
    IF n < 10 THEN <<DigitChar(n)>> ELSE Append(NatDigits(n \div 10), DigitChar(n % 10))

\* The digits after the point of r / d, r < d: as many as the fraction
\* takes, and no more than an f64 shows.
RECURSIVE FractionDigits(_, _, _)
FractionDigits(r, d, room) ==
    IF r = 0 \/ room = 0 THEN <<>>
    ELSE <<DigitChar((10 * r) \div d)>> \o FractionDigits((10 * r) % d, d, room - 1)

\* Display for f64: NaN, inf, -inf, and for a finite number the sign, the
\* integer digits and, when there is a fraction, a point and its digits.
display_f64(x) ==
    CASE is_nan(x) -> <<"N", "a", "N">>
      [] is_inf(x) -> (IF x.neg THEN <<"-">> ELSE <<>>) \o <<"i", "n", "f">>
      [] OTHER ->
             (IF x.neg THEN <<"-">> ELSE <<>>)
             \o NatDigits(x.n \div x.d)
             \o (IF x.n % x.d = 0 THEN <<>>
                 ELSE <<".">> \o FractionDigits(x.n % x.d, x.d, 17))

\* A faulty variant: a string is written as in the source, between quotes.
println_quoted(v) ==
    CASE v.type = "String" -> <<Quote>> \o v.text \o <<Quote>>
      [] v.type = "Boolean" -> IF v.bool THEN <<"t", "r", "u", "e">> ELSE <<"f", "a", "l", "s", "e">>
      [] v.type = "Nil" -> <<"n", "i", "l">>
      [] v.type = "Number" -> display_f64(v.num)

\* match value { Value::String(v) => println!("{}", v), ... }
println(v) ==
    CASE v.type = "String" -> v.text
      [] v.type = "Boolean" -> IF v.bool THEN <<"t", "r", "u", "e">> ELSE <<"f", "a", "l", "s", "e">>
      [] v.type = "Nil" -> <<"n", "i", "l">>
      [] v.type = "Number" -> display_f64(v.num)

\* execute(stmt) on the output written so far: Var and every other
\* statement end in todo!().
execute(stmt, out) ==
    LET printed(r) ==
            IF r.ok THEN [ok |-> TRUE, out |-> Append(out, println(r.v)), err |-> "none"]
            ELSE [ok |-> FALSE, out |-> out, err |-> r.err]
        evaluated(r) ==
            [ok |-> r.ok, out |-> out, err |-> r.err]
    IN  CASE stmt.type = "Print" -> printed(eval(stmt.expr))
          [] stmt.type = "Expression" -> evaluated(eval(stmt.expr))
          [] OTHER -> [ok |-> FALSE, out |-> out, err |-> "not yet implemented"]

\* No expression has been given to eval.
NoInterpreter ==
    /\ ast = NoExpr
    /\ estatus = "none"
    /\ evalue = NoValue
    /\ everr = "none"

\* interpret has not been called.
NoExecution ==
    /\ program = <<>>
    /\ executed = 0
    /\ xstatus = "none"
    /\ xerr = "none"
    /\ output = <<>>

(***************************************************************************)
(* The sources the scanner is run on: every string up to MaxLen over three *)
(* small alphabets (operators and comments, string literals, numbers),     *)
(* every pair of characters, up to MaxWords words around the keyword table,*)
(* and the sources of the repository's tests.                              *)
(***************************************************************************)
SeqsUpTo(A, n) == UNION {[1..k -> A] : k \in 0..n}

AllChars ==
    {"(", ")", "{", "}", ",", ".", "-", "+", ";", "*", "!", "=", "<", ">", "/",
     " ", "\r", "\t", Newline, Quote, "0", "9", "a", "z", "A", "Z", "_", "@", EAcute}

OpsAlphabet == {"(", "!", "=", "<", "/", " ", Newline, EAcute}
StrAlphabet == {Quote, Newline, "a", EAcute, "/"}
NumAlphabet == {"1", "0", ".", ";"}

\* A comment that holds a two-byte character, then a newline.
CommentLine == <<"/", "/", EAcute, Newline>>

KeywordTexts == {kw[1] : kw \in Keywords}

Words ==
    KeywordTexts
    \cup {Append(k, "s") : k \in KeywordTexts}
    \cup {Append(k, "_") : k \in KeywordTexts}
    \cup {SubSeq(k, 1, Len(k) - 1) : k \in KeywordTexts}
    \cup {<<"i", "f", "f", "y">>, <<"c", "l", "a", "s", "s", "y">>,
          <<"_">>, <<"x", "1">>, <<"A", "_", "9">>}

RECURSIVE JoinWords(_)
JoinWords(ws) ==
    IF ws = <<>> THEN <<>>
    ELSE IF Len(ws) = 1 THEN ws[1]
    ELSE ws[1] \o <<" ">> \o JoinWords(Tail(ws))

TestSources ==
    {<<"(", ")", "{", "}", ",", "-", "*", ";">>,
     <<"!", " ", "!", "=", " ", "-", " ", "-", " ", "=", " ", "=", "=", " ",
       "<", " ", "<", "=", " ", ">", " ", ">", "=", " ", "*", "/">>,
     <<"1", "2", "3", ".", "4", "5", "6">>,
     <<"1", ".", "5", ".", "2">>,
     <<Quote, "a", Newline, "b", Quote, " ", Quote, Quote>>}

Sources ==
    SeqsUpTo(OpsAlphabet, MaxLen)
    \cup SeqsUpTo(StrAlphabet, MaxLen)
    \cup {pre \o s : pre \in {<<>>, CommentLine}, s \in SeqsUpTo(NumAlphabet, MaxLen)}
    \cup {pre \o JoinWords(ws) \o post :
              pre \in {<<>>, CommentLine}, ws \in SeqsUpTo(Words, MaxWords),
              post \in {<<>>, <<";">>}}
    \cup SeqsUpTo(AllChars, 2)
    \cup TestSources

(***************************************************************************)
(* Scanner::new and the actions of scan_tokens: the call, one iteration of *)
(* its loop, and the return.                                               *)
(***************************************************************************)
ScannerNew ==
    /\ source \in Sources
    /\ tokens = <<>>
    /\ start = 0
    /\ current = 0
    /\ line = 1
    /\ scan_pc = "idle"
    /\ err = "none"
    /\ calls = 0

ScanTokensCall ==
    /\ scan_pc = "idle"
    /\ calls < MaxCalls
    /\ scan_pc' = "loop"
    /\ calls' = calls + 1
    /\ UNCHANGED <<source, tokens, start, current, line, err>>
    /\ UNCHANGED parser_vars
    /\ UNCHANGED interp_vars
    /\ UNCHANGED exec_vars

ScanTokensLoop ==
    /\ scan_pc = "loop"
    /\ ~is_at_end(source, ScannerState)
    /\ LET st == scan_token(source, [ScannerState EXCEPT !.start = current])
       IN  /\ tokens' = st.tokens
           /\ start' = st.start
           /\ current' = st.current
           /\ line' = st.line
           /\ err' = st.err
           /\ scan_pc' = IF st.err = "none" THEN "loop" ELSE "panic"
    /\ UNCHANGED <<source, calls>>
    /\ UNCHANGED parser_vars
    /\ UNCHANGED interp_vars
    /\ UNCHANGED exec_vars

ScanTokensReturn ==
    /\ scan_pc = "loop"
    /\ is_at_end(source, ScannerState)
    /\ tokens' = Append(tokens, Token("EOF", <<>>, NoNum, line, current))
    /\ scan_pc' = "idle"
    /\ UNCHANGED <<source, start, current, line, err, calls>>
    /\ UNCHANGED parser_vars
    /\ UNCHANGED interp_vars
    /\ UNCHANGED exec_vars

\* No parser has been built.
NoParser ==
    /\ ptokens = <<>>
    /\ pcurrent = 0
    /\ pstatus = "none"
    /\ pop = "none"
    /\ pstart = 0
    /\ result = NoExpr
    /\ statements = <<>>
    /\ perr = "none"
    /\ pfound = NoToken
    /\ pout = <<>>

Init == ScannerNew /\ NoParser /\ NoInterpreter /\ NoExecution

Next == ScanTokensCall \/ ScanTokensLoop \/ ScanTokensReturn

Spec == Init /\ [][Next]_vars

(***************************************************************************)
(* The token sequences the parser is run on, each closed by EOF: every     *)
(* sequence up to MaxTokens over eight expression tokens, every pair of    *)
(* tokens, chains of up to MaxChain binary operators between numbers, and  *)
(* variable declarations with initializers of up to MaxInit tokens, alone  *)
(* or before an expression statement with or without its semicolon.        *)
(***************************************************************************)
Sym(kind) == [kind |-> kind, text |-> <<>>, num |-> NoNum]
Num(n) == [kind |-> "NumberLiteral", text |-> <<>>, num |-> [m |-> n, e |-> 0]]
Str(t) == [kind |-> "StringLiteral", text |-> t, num |-> NoNum]
Ident(t) == [kind |-> "Identifier", text |-> t, num |-> NoNum]

MkTokens(syms) ==
    [i \in 1..(Len(syms) + 1) |->
        IF i <= Len(syms) THEN Token(syms[i].kind, syms[i].text, syms[i].num, 1, i)
        ELSE Token("EOF", <<>>, NoNum, 1, i)]

BinaryKinds ==
    DOMAIN EqualityOperator \cup DOMAIN ComparisonOperator
    \cup DOMAIN TermOperator \cup DOMAIN FactorOperator

ExprAlphabet ==
    {Num(1), Sym("Minus"), Sym("Bang"), Sym("Star"), Sym("Less"),
     Sym("EqualEqual"), Sym("LeftParen"), Sym("RightParen")}

AllSyms ==
    {Sym(k) : k \in BinaryKinds \cup {"Bang", "LeftParen", "RightParen", "True",
                                      "False", "Nil", "Semicolon", "Equal", "Var",
                                      "Print", "LeftBrace", "EOF"}}
    \cup {Num(2), Str(<<"a">>), Ident(<<"x">>)}

\* n1 op1 n2 op2 ... : the operands are the numbers 1, 2, 3, ...
Chain(ops) ==
    [i \in 1..(2 * Len(ops) + 1) |->
        IF i % 2 = 1 THEN Num((i + 1) \div 2) ELSE Sym(ops[i \div 2])]

InitAlphabet == {Num(26), Sym("Minus"), Sym("Plus"), Sym("LeftParen"), Sym("RightParen")}

VarDeclarations ==
    {<<Sym("Var"), name>> \o init \o <<Sym("Semicolon")>> \o rest :
        name \in {Ident(<<"a", "g", "e">>), Ident(<<"x">>)},
        init \in {<<>>} \cup {<<Sym("Equal")>> \o e : e \in SeqsUpTo(InitAlphabet, MaxInit)},
        rest \in {<<>>, <<Num(1), Sym("Semicolon")>>, <<Num(1)>>}}

TokenSeqs ==
    SeqsUpTo(ExprAlphabet, MaxTokens)
    \cup SeqsUpTo(AllSyms, 2)
    \cup {Chain(ops) : ops \in SeqsUpTo(BinaryKinds, MaxChain)}
    \cup VarDeclarations

(***************************************************************************)
(* Parser::new and the public calls: expression(), and parse() as its      *)
(* call, one iteration of its loop, and its return.                        *)
(***************************************************************************)
ParserNew ==
    /\ ptokens \in {MkTokens(syms) : syms \in TokenSeqs}
    /\ pcurrent = 0
    /\ pstatus = "ready"
    /\ pop = "none"
    /\ pstart = 0
    /\ result = NoExpr
    /\ statements = <<>>
    /\ perr = "none"
    /\ pfound = NoToken
    /\ pout = <<>>

\* No scanner takes part: the parser is given its tokens directly.
NoScanner ==
    /\ source = <<>>
    /\ tokens = <<>>
    /\ start = 0
    /\ current = 0
    /\ line = 1
    /\ scan_pc = "idle"
    /\ err = "none"
    /\ calls = 0

ParserState == [current |-> pcurrent, err |-> "none", found |-> NoToken, out |-> pout]

ExpressionCall ==
    /\ pstatus = "ready"
    /\ LET r == expression(ptokens, ParserState)
       IN  /\ pcurrent' = r.p.current
           /\ result' = r.e
           /\ perr' = r.p.err
           /\ pfound' = r.p.found
           /\ pout' = r.p.out
           /\ pstatus' = IF r.p.err = "none" THEN "ready" ELSE "panic"
    /\ pop' = "expression"
    /\ pstart' = pcurrent
    /\ UNCHANGED <<ptokens, statements>>
    /\ UNCHANGED scan_vars
    /\ UNCHANGED interp_vars
    /\ UNCHANGED exec_vars

\* literal(): result holds the Literal of Ok, and no expression for Err(()).
\* It is called on parsers of at most MaxLiteralLen tokens.
LiteralCall ==
    /\ pstatus = "ready"
    /\ Len(ptokens) <= MaxLiteralLen
    /\ LET r == literal(ptokens, ParserState)
       IN  /\ pcurrent' = r.p.current
           /\ result' = r.e
           /\ perr' = r.p.err
           /\ pfound' = r.p.found
           /\ pout' = r.p.out
           /\ pstatus' = IF r.p.err = "none" THEN "ready" ELSE "panic"
    /\ pop' = "literal"
    /\ pstart' = pcurrent
    /\ UNCHANGED <<ptokens, statements>>
    /\ UNCHANGED scan_vars
    /\ UNCHANGED interp_vars
    /\ UNCHANGED exec_vars

ParseCall ==
    /\ pstatus = "ready"
    /\ pstatus' = "parsing"
    /\ pop' = "parse"
    /\ pstart' = pcurrent
    /\ statements' = <<>>
    /\ UNCHANGED <<ptokens, pcurrent, result, perr, pfound, pout>>
    /\ UNCHANGED scan_vars
    /\ UNCHANGED interp_vars
    /\ UNCHANGED exec_vars

\* A faulty variant: the loop goes on after a panic.
after_declaration_recovering(e) == "parsing"

\* A panic in declaration() unwinds through parse(): the loop is left and
\* nothing is returned.
after_declaration(e) == IF e = "none" THEN "parsing" ELSE "panic"

\* One iteration of while !self.is_at_end() { statements.push(declaration()) }
ParseLoop ==
    /\ pstatus = "parsing"
    /\ IF InRange(ptokens, ParserState) THEN ~p_is_at_end(ptokens, ParserState) ELSE TRUE
    /\ LET d == IF ~InRange(ptokens, ParserState)
                THEN FailedStmt(PPanic(ParserState, "index out of bounds", NoToken))
                ELSE declaration(ptokens, ParserState)
       IN  /\ pcurrent' = d.p.current
           /\ perr' = d.p.err
           /\ pfound' = d.p.found
           /\ pout' = d.p.out
           /\ pstatus' = after_declaration(d.p.err)
           /\ statements' = IF d.p.err = "none" THEN Append(statements, d.s) ELSE statements
    /\ UNCHANGED <<ptokens, pop, pstart, result>>
    /\ UNCHANGED scan_vars
    /\ UNCHANGED interp_vars
    /\ UNCHANGED exec_vars

ParseReturn ==
    /\ pstatus = "parsing"
    /\ InRange(ptokens, ParserState)
    /\ p_is_at_end(ptokens, ParserState)
    /\ pstatus' = "ready"
    /\ UNCHANGED <<ptokens, pcurrent, pop, pstart, result, statements, perr, pfound, pout>>
    /\ UNCHANGED scan_vars
    /\ UNCHANGED interp_vars
    /\ UNCHANGED exec_vars

ParserInit == NoScanner /\ ParserNew /\ NoInterpreter /\ NoExecution

ParserNext == LiteralCall \/ ExpressionCall \/ ParseCall \/ ParseLoop \/ ParseReturn

ParserSpec == ParserInit /\ [][ParserNext]_vars

\* The parser as a running program, given statements: a call of parse()
\* goes on until it returns or panics.
StmtAlphabet == {Sym("Print"), Sym("Var"), Sym("Semicolon"), Sym("Equal"), Num(1), Ident(<<"x">>)}

StmtTokenSeqs == SeqsUpTo(StmtAlphabet, MaxParse)

ParseInit ==
    /\ NoScanner
    /\ ptokens \in {MkTokens(syms) : syms \in StmtTokenSeqs}
    /\ pcurrent = 0
    /\ pstatus = "ready"
    /\ pop = "none"
    /\ pstart = 0
    /\ result = NoExpr
    /\ statements = <<>>
    /\ perr = "none"
    /\ pfound = NoToken
    /\ pout = <<>>
    /\ NoInterpreter
    /\ NoExecution

ParseNext == ParseCall \/ ParseLoop \/ ParseReturn

\* A call of parse() is under way: its loop can take a step or return, and
\* either changes pstatus or statements.
LoopEnabled == pstatus = "parsing"

\* Weak fairness of the loop of parse(), written out with LoopEnabled, the
\* condition under which ParseLoop \/ ParseReturn can take a step.
ParseFairSpec ==
    /\ ParseInit
    /\ [][ParseNext]_vars
    /\ ([]<>(~LoopEnabled) \/ []<><<ParseLoop \/ ParseReturn>>_vars)

(***************************************************************************)
(* The expressions eval is called on: the literals (numbers up to          *)
(* MaxNumber, two strings, the booleans, nil), the operands that evaluate  *)
(* to NaN, to an infinity and to the negative zero, every operator on      *)
(* these operands, and the expressions of the repository's tests.          *)
(***************************************************************************)
Number(k) == LiteralNumber([m |-> k, e |-> 0])

Literals ==
    {Number(k) : k \in 0..MaxNumber}
    \cup {LiteralString(<<>>), LiteralString(<<"a">>), LiteralBoolean(TRUE),
          LiteralBoolean(FALSE), LiteralNil}

Operands ==
    Literals
    \cup {Binary(Number(0), "Divide", Number(0)), Binary(Number(1), "Divide", Number(0)),
          Unary("Minus", Number(0)), Grouping(Number(1))}

BinaryOperators ==
    {"Minus", "Plus", "Multiply", "Divide", "GreaterThan", "LessThan",
     "GreaterThanEqual", "LessThanEqual", "EqualEqual", "NotEqual"}

UnaryOperators == {"Minus", "Not"}

TestExprs ==
    {LiteralNumber([m |-> 1232, e |-> 1]), LiteralString(<<"s", "t", "r">>),
     Unary("Minus", Number(42)),
     Binary(Number(2), "Multiply",
            Grouping(Binary(Number(3), "Divide", Unary("Minus", LiteralString(<<"m">>)))))}

\* Expressions in which more than one node has operands of the wrong type.
OrderExprs ==
    {Binary(LiteralString(<<"a">>), "Multiply", Unary("Minus", LiteralString(<<"b">>))),
     Binary(Unary("Minus", LiteralNil), "Plus",
            Binary(Number(1), "Minus", LiteralString(<<"a">>))),
     Binary(Binary(Number(1), "Minus", LiteralString(<<"a">>)), "Plus",
            Unary("Minus", LiteralNil)),
     Binary(LiteralBoolean(TRUE), "Minus", Binary(Number(1), "Plus", LiteralNil)),
     Unary("Minus", Binary(LiteralNil, "LessThan", Unary("Minus", LiteralNil)))}

Exprs ==
    Operands
    \cup {Unary(op, right) : op \in UnaryOperators, right \in Operands}
    \cup {Binary(left, op, right) : left \in Operands, op \in BinaryOperators,
                                     right \in Operands}
    \cup {Grouping(e) : e \in Operands}
    \cup {Grouping(Unary("Minus", e)) : e \in Literals}
    \cup OrderExprs
    \cup TestExprs

(***************************************************************************)
(* Interpreter::eval on an expression: the call with its result.  An       *)
(* expression that was evaluated can be evaluated again.                   *)
(***************************************************************************)
EvalCall ==
    /\ estatus \in {"new", "done"}
    /\ LET r == eval(ast)
       IN  /\ estatus' = IF r.ok THEN "done" ELSE "panic"
           /\ evalue' = r.v
           /\ everr' = r.err
    /\ UNCHANGED ast
    /\ UNCHANGED scan_vars
    /\ UNCHANGED parser_vars
    /\ UNCHANGED exec_vars

InterpInit ==
    /\ NoScanner
    /\ NoParser
    /\ ast \in Exprs
    /\ estatus = "new"
    /\ evalue = NoValue
    /\ everr = "none"
    /\ NoExecution

InterpNext == EvalCall

InterpSpec == InterpInit /\ [][InterpNext]_vars

(***************************************************************************)
(* The three stages in a row, as main and the interpreter's tests run      *)
(* them: Scanner::new(source), scan_tokens(), Parser::new(tokens.clone()), *)
(* parser.expression(), Interpreter::eval(&expr).  The sources are written *)
(* with a digit, -, *, and parentheses, and those of the tests.            *)
(***************************************************************************)
ArithAlphabet == {"2", "-", "*", "(", ")"}

ArithTestSources ==
    {<<"(", "5", " ", "-", " ", "(", "3", " ", "-", " ", "1", ")", ")", " ",
       "+", " ", "-", "1">>,
     <<"-", "1", " ", "-", " ", "2", " ", "*", " ", "(", "4", " ", "-", " ", "2", ")">>,
     <<"1", "+", "2", "*", "3">>,
     <<"3", "-", "2", "-", "1">>,
     <<"1", "0", " ", "+", "-", "-", "7">>,
     <<"1", " ", "2">>}

ArithSources == SeqsUpTo(ArithAlphabet, MaxSource) \cup ArithTestSources

PipelineInit ==
    /\ source \in ArithSources
    /\ tokens = <<>>
    /\ start = 0
    /\ current = 0
    /\ line = 1
    /\ scan_pc = "idle"
    /\ err = "none"
    /\ calls = 0
    /\ NoParser
    /\ NoInterpreter
    /\ NoExecution

\* let tokens = scanner.scan_tokens(): the one call, its loop and its return.
PipelineScanCall == calls = 0 /\ ScanTokensCall
PipelineScanLoop == pstatus = "none" /\ ScanTokensLoop
PipelineScanReturn == pstatus = "none" /\ ScanTokensReturn

\* let mut parser = Parser::new(tokens.clone())
ParserFromScanner ==
    /\ scan_pc = "idle"
    /\ calls >= 1
    /\ pstatus = "none"
    /\ ptokens' = tokens
    /\ pcurrent' = 0
    /\ pstatus' = "ready"
    /\ UNCHANGED <<pop, pstart, result, statements, perr, pfound, pout>>
    /\ UNCHANGED scan_vars
    /\ UNCHANGED interp_vars
    /\ UNCHANGED exec_vars

\* let expr = parser.expression()
PipelineExpression == pop = "none" /\ ExpressionCall

\* let val = Interpreter::eval(&expr)
PipelineEval ==
    /\ pop = "expression"
    /\ pstatus = "ready"
    /\ estatus = "none"
    /\ ast' = result
    /\ LET r == eval(result)
       IN  /\ estatus' = IF r.ok THEN "done" ELSE "panic"
           /\ evalue' = r.v
           /\ everr' = r.err
    /\ UNCHANGED scan_vars
    /\ UNCHANGED parser_vars
    /\ UNCHANGED exec_vars

PipelineNext ==
    \/ PipelineScanCall
    \/ PipelineScanLoop
    \/ PipelineScanReturn
    \/ ParserFromScanner
    \/ PipelineExpression
    \/ PipelineEval

PipelineSpec == PipelineInit /\ [][PipelineNext]_vars

(***************************************************************************)
(* Interpreter::interpret on a statement list: the call, one iteration of  *)
(* its loop (execute on the next statement), and the return.               *)
(***************************************************************************)
StmtExprs ==
    {Number(1), LiteralString(<<"a">>), LiteralString(<<>>), LiteralBoolean(TRUE),
     LiteralBoolean(FALSE), LiteralNil,
     Binary(Number(1), "Divide", Number(2)),
     Binary(Number(1), "Plus", Number(2)),
     Unary("Minus", LiteralString(<<"a">>)),
     Binary(Number(1), "Plus", LiteralString(<<"a">>))}

Stmts ==
    {StmtPrint(e) : e \in StmtExprs}
    \cup {StmtExpression(e) : e \in StmtExprs}
    \cup {StmtVar(<<"x">>, Number(1))}

Programs == SeqsUpTo(Stmts, MaxStmts)

\* The for loop of interpret on the statements and the output of a state.
interpret_step(stmts, done, out) ==
    LET r == execute(stmts[done + 1], out)
    IN  [status |-> IF r.ok THEN "running" ELSE "panic",
         executed |-> IF r.ok THEN done + 1 ELSE done,
         out |-> r.out,
         err |-> r.err]

InterpretCall ==
    /\ xstatus = "new"
    /\ xstatus' = "running"
    /\ UNCHANGED <<program, executed, xerr, output>>
    /\ UNCHANGED scan_vars
    /\ UNCHANGED parser_vars
    /\ UNCHANGED interp_vars

InterpretLoop ==
    /\ xstatus = "running"
    /\ executed < Len(program)
    /\ LET r == interpret_step(program, executed, output)
       IN  /\ xstatus' = r.status
           /\ executed' = r.executed
           /\ output' = r.out
           /\ xerr' = r.err
    /\ UNCHANGED program
    /\ UNCHANGED scan_vars
    /\ UNCHANGED parser_vars
    /\ UNCHANGED interp_vars

InterpretReturn ==
    /\ xstatus = "running"
    /\ executed = Len(program)
    /\ xstatus' = "done"
    /\ UNCHANGED <<program, executed, xerr, output>>
    /\ UNCHANGED scan_vars
    /\ UNCHANGED parser_vars
    /\ UNCHANGED interp_vars

InterpretInit ==
    /\ NoScanner
    /\ NoParser
    /\ NoInterpreter
    /\ program \in Programs
    /\ executed = 0
    /\ xstatus = "new"
    /\ xerr = "none"
    /\ output = <<>>

InterpretNext == InterpretCall \/ InterpretLoop \/ InterpretReturn

InterpretSpec == InterpretInit /\ [][InterpretNext]_vars

(***************************************************************************)
(* main: Scanner::new(source), scan_tokens(), Parser::new(tokens.clone()), *)
(* parser.parse(), Interpreter::interpret(stmts), on programs put together *)
(* from a few statements, some of them with a scan, parse or type error.   *)
(***************************************************************************)
Pieces ==
    {<<"p", "r", "i", "n", "t", " ", "1", " ", "+", " ", "2", ";">>,
     <<"p", "r", "i", "n", "t", " ", Quote, "a", Quote, ";">>,
     <<"1", ";">>,
     <<"p", "r", "i", "n", "t", " ", "-", Quote, "a", Quote, ";">>,
     <<"p", "r", "i", "n", "t", " ", "(", "1", ";">>,
     <<"v", "a", "r", " ", "x", ";">>,
     <<Quote, "a">>}

RECURSIVE JoinPieces(_)
JoinPieces(ps) ==
    IF ps = <<>> THEN <<>>
    ELSE IF Len(ps) = 1 THEN ps[1]
    ELSE ps[1] \o <<" ">> \o JoinPieces(Tail(ps))

MainSources == {JoinPieces(ps) : ps \in SeqsUpTo(Pieces, MaxPieces)}

MainInit ==
    /\ source \in MainSources
    /\ tokens = <<>>
    /\ start = 0
    /\ current = 0
    /\ line = 1
    /\ scan_pc = "idle"
    /\ err = "none"
    /\ calls = 0
    /\ NoParser
    /\ NoInterpreter
    /\ NoExecution

\* let stmts = parser.parse()
MainParseCall == pop = "none" /\ ParseCall

\* A faulty variant: the statements are executed as soon as some are parsed.
parse_returned_eager == pop = "parse" /\ statements # <<>>

\* let stmts = parser.parse(); Interpreter::interpret(stmts): interpret is
\* called with what parse() returned.
parse_returned == pop = "parse" /\ pstatus = "ready"

MainInterpret ==
    /\ parse_returned
    /\ xstatus = "none"
    /\ program' = statements
    /\ xstatus' = "running"
    /\ UNCHANGED <<executed, xerr, output>>
    /\ UNCHANGED scan_vars
    /\ UNCHANGED parser_vars
    /\ UNCHANGED interp_vars

MainNext ==
    \/ PipelineScanCall
    \/ PipelineScanLoop
    \/ PipelineScanReturn
    \/ ParserFromScanner
    \/ MainParseCall
    \/ ParseLoop
    \/ ParseReturn
    \/ MainInterpret
    \/ InterpretLoop
    \/ InterpretReturn

MainSpec == MainInit /\ [][MainNext]_vars

(***************************************************************************)
(* Reference definitions for the scanner's claims, stated on the source by *)
(* index and independent of the scanner's cursor.                          *)
(***************************************************************************)
Returned == scan_pc = "idle" /\ calls >= 1
FirstReturn == scan_pc = "idle" /\ calls = 1

Kinds(ts) == [i \in 1..Len(ts) |-> ts[i].kind]
LastToken == tokens[Len(tokens)]

PunctKind ==
    ("(" :> "LeftParen") @@ (")" :> "RightParen") @@ ("{" :> "LeftBrace")
    @@ ("}" :> "RightBrace") @@ ("," :> "Comma") @@ ("." :> "Dot")
    @@ ("-" :> "Minus") @@ ("+" :> "Plus") @@ (";" :> "Semicolon") @@ ("*" :> "Star")
OneCharKind ==
    ("!" :> "Bang") @@ ("=" :> "Equal") @@ ("<" :> "Less") @@ (">" :> "Greater")
TwoCharKind ==
    ("!" :> "BangEqual") @@ ("=" :> "EqualEqual") @@ ("<" :> "LessEqual")
    @@ (">" :> "GreaterEqual")

\* The index of the first newline at or after i, or Len(s) + 1.
LineEnd(s, i) ==
    IF \E j \in i..Len(s) : s[j] = Newline
    THEN CHOOSE j \in i..Len(s) : s[j] = Newline /\ \A k \in i..(j - 1) : s[k] # Newline
    ELSE Len(s) + 1

RECURSIVE RefKinds(_, _)
RefKinds(s, i) ==
    IF i > Len(s) THEN <<"EOF">>
    ELSE LET c == s[i]
             nxt == IF i < Len(s) THEN s[i + 1] ELSE NoChar
         IN  CASE c \in DOMAIN PunctKind -> <<PunctKind[c]>> \o RefKinds(s, i + 1)
               [] c \in {" ", "\r", "\t", Newline} -> RefKinds(s, i + 1)
               [] c \in DOMAIN OneCharKind ->
                      IF nxt = "=" THEN <<TwoCharKind[c]>> \o RefKinds(s, i + 2)
                      ELSE <<OneCharKind[c]>> \o RefKinds(s, i + 1)
               [] c = "/" ->
                      IF nxt = "/" THEN RefKinds(s, LineEnd(s, i))
                      ELSE <<"Slash">> \o RefKinds(s, i + 1)
               [] OTHER -> <<"OutOfClass">>

\* Only punctuation, operators, whitespace and comments.
InOpsClass(s) == \A i \in 1..Len(RefKinds(s, 1)) : RefKinds(s, 1)[i] # "OutOfClass"

IsAscii(s) == \A i \in 1..Len(s) : Utf8Len(s[i]) = 1

NewlinesUpTo(s, n) == Cardinality({i \in 1..n : i <= Len(s) /\ s[i] = Newline})

\* The latest iteration of the loop began at a character of class C (the loop
\* runs in the first call only: afterwards the cursor stays at the end).
StepBeganAt(C) ==
    /\ scan_pc \in {"loop", "panic"}
    /\ calls = 1
    /\ current > start
    /\ start < Len(source)
    /\ source[start + 1] \in C

\* The index (from 1) of the first quote after the one at start + 1, or 0.
ClosingQuote ==
    IF \E q \in (start + 2)..Len(source) : source[q] = Quote
    THEN CHOOSE q \in (start + 2)..Len(source) :
             source[q] = Quote /\ \A k \in (start + 2)..(q - 1) : source[k] # Quote
    ELSE 0

\* The index of the last character of the longest run of C from index i.
RECURSIVE RunEnd(_, _, _)
RunEnd(s, i, C) == IF i < Len(s) /\ s[i + 1] \in C THEN RunEnd(s, i + 1, C) ELSE i

\* The last index of the numeric lexeme that begins at index i.
NumberEnd(s, i) ==
    LET d == RunEnd(s, i, Digits)
    IN  IF d + 2 <= Len(s) /\ s[d + 1] = "." /\ s[d + 2] \in Digits
        THEN RunEnd(s, d + 2, Digits) ELSE d

\* The value a digit string denotes.
RECURSIVE NatOf(_)
NatOf(ds) == IF ds = <<>> THEN 0 ELSE 10 * NatOf(SubSeq(ds, 1, Len(ds) - 1)) + DigitVal(ds[Len(ds)])

RECURSIVE Pow10(_)
Pow10(k) == IF k = 0 THEN 1 ELSE 10 * Pow10(k - 1)

\* Two decimals m / 10^e denote the same number.
SameNumber(x, y) == x.m * Pow10(y.e) = y.m * Pow10(x.e)

\* The decimal denoted by the lexeme s[i..j], digits with at most one '.'.
Denoted(s, i, j) ==
    LET d == RunEnd(s, i, Digits)
    IN  IF d = j THEN [m |-> NatOf(SubSeq(s, i, j)), e |-> 0]
        ELSE [m |-> NatOf(SubSeq(s, i, d) \o SubSeq(s, d + 2, j)), e |-> j - d - 1]

IdentChars == Lower \cup Upper \cup Digits \cup {"_"}

(***************************************************************************)
(* C1: every token sequence scan_tokens returns, on the first and on any   *)
(* repeated call, ends with an EOF token and holds no other EOF token.     *)
(***************************************************************************)
C1_ExactlyOneEOF ==
    Returned =>
        /\ Len(tokens) >= 1
        /\ LastToken.kind = "EOF"
        /\ \A i \in 1..(Len(tokens) - 1) : tokens[i].kind # "EOF"

(***************************************************************************)
(* C2: for a source of punctuation, operators, whitespace and comments,    *)
(* the kinds of the returned tokens are the maximal-munch tokenization,    *)
(* and such a source is scanned to the end unless it holds a character of  *)
(* more than one byte.                                                     *)
(***************************************************************************)
C2_MaximalMunch ==
    InOpsClass(source) =>
        /\ FirstReturn => Kinds(tokens) = RefKinds(source, 1)
        /\ scan_pc = "panic" => ~IsAscii(source)

C2_Witness ==
    /\ FirstReturn
    /\ InOpsClass(source)
    /\ \E i \in 1..Len(tokens) : tokens[i].kind \in {"BangEqual", "EqualEqual", "LessEqual"}
    /\ \E i \in 1..(Len(source) - 1) : source[i] = "/" /\ source[i + 1] = "/"
    /\ \A i \in 1..Len(tokens) : tokens[i].kind # "Slash"

(***************************************************************************)
(* C3: every token's line is 1 plus the number of newlines of the source   *)
(* up to the end of its lexeme.                                            *)
(***************************************************************************)
C3_LineCountsNewlines ==
    \A i \in 1..Len(tokens) : tokens[i].line = 1 + NewlinesUpTo(source, tokens[i].pos)

(***************************************************************************)
(* C4: a step that begins at a quote with a later quote emits one          *)
(* StringLiteral token whose payload is the characters strictly between    *)
(* the two quotes, and leaves the cursor after the closing quote.          *)
(***************************************************************************)
C4_StringPayload ==
    StepBeganAt({Quote}) /\ ClosingQuote # 0 =>
        /\ scan_pc = "loop"
        /\ Len(tokens) >= 1
        /\ LastToken.kind = "StringLiteral"
        /\ LastToken.text = SubSeq(source, start + 2, ClosingQuote - 1)
        /\ current = ClosingQuote

(***************************************************************************)
(* C5: a step that begins at a quote with no later quote aborts the scan,  *)
(* and an aborted scan never returns a token sequence.                     *)
(***************************************************************************)
C5_UnterminatedAborts ==
    /\ [](StepBeganAt({Quote}) /\ ClosingQuote = 0 => scan_pc = "panic" /\ err # "none")
    /\ [][scan_pc = "panic" => scan_pc' = "panic" /\ tokens' = tokens]_vars

C5_Witness ==
    /\ StepBeganAt({Quote})
    /\ ClosingQuote = 0
    /\ err = "unterminated"
    /\ Len(tokens) >= 1
    /\ Len(source) > start + 1

(***************************************************************************)
(* C6: a step that begins at a digit consumes the digits, then a '.' only  *)
(* when a digit follows it plus the digits after it, and emits a           *)
(* NumberLiteral whose value is the number the consumed text denotes.      *)
(***************************************************************************)
C6_NumberLiteral ==
    StepBeganAt(Digits) =>
        /\ scan_pc = "loop"
        /\ current = NumberEnd(source, start + 1)
        /\ Len(tokens) >= 1
        /\ LastToken.kind = "NumberLiteral"
        /\ SameNumber(LastToken.num, Denoted(source, start + 1, current))

(***************************************************************************)
(* C7: a step that begins at a letter or underscore consumes the longest   *)
(* run of letters, digits and underscores and emits the keyword token when *)
(* the run is one of the 16 keywords, else an Identifier with the run.     *)
(***************************************************************************)
C7_KeywordOrIdentifier ==
    StepBeganAt(Lower \cup Upper \cup {"_"}) =>
        LET run == SubSeq(source, start + 1, RunEnd(source, start + 1, IdentChars))
        IN  /\ scan_pc = "loop"
            /\ current = start + Len(run)
            /\ Len(tokens) >= 1
            /\ IF run \in KeywordTexts
               THEN /\ <<run, LastToken.kind>> \in Keywords
                    /\ LastToken.text = <<>>
               ELSE /\ LastToken.kind = "Identifier"
                    /\ LastToken.text = run

GrammarOperator ==
    << ("BangEqual" :> "NotEqual") @@ ("EqualEqual" :> "EqualEqual"),
       ("Greater" :> "GreaterThan") @@ ("GreaterEqual" :> "GreaterThanEqual")
           @@ ("Less" :> "LessThan") @@ ("LessEqual" :> "LessThanEqual"),
       ("Minus" :> "Minus") @@ ("Plus" :> "Plus"),
       ("Slash" :> "Divide") @@ ("Star" :> "Multiply") >>

PrefixOperator == ("Bang" :> "Not") @@ ("Minus" :> "Minus")

UnaryLevel == Len(GrammarOperator) + 1
PrimaryLevel == UnaryLevel + 1

LiteralKinds == {"NumberLiteral", "StringLiteral", "True", "False", "Nil"}

LiteralOf(tok) ==
    CASE tok.kind = "NumberLiteral" -> LiteralNumber(tok.num)
      [] tok.kind = "StringLiteral" -> LiteralString(tok.text)
      [] tok.kind = "True" -> LiteralBoolean(TRUE)
      [] tok.kind = "False" -> LiteralBoolean(FALSE)
      [] OTHER -> LiteralNil

RECURSIVE Derives(_, _, _, _)
Derives(toks, level, i, j) ==
    IF i > j THEN FALSE
    ELSE IF level = PrimaryLevel
    THEN \/ i = j /\ toks[i].kind \in LiteralKinds
         \/ /\ i + 1 < j
            /\ toks[i].kind = "LeftParen"
            /\ toks[j].kind = "RightParen"
            /\ Derives(toks, 1, i + 1, j - 1)
    ELSE IF level = UnaryLevel
    THEN \/ toks[i].kind \in DOMAIN PrefixOperator /\ Derives(toks, UnaryLevel, i + 1, j)
         \/ Derives(toks, PrimaryLevel, i, j)
    ELSE \/ Derives(toks, level + 1, i, j)
         \/ \E k \in (i + 1)..(j - 1) :
                /\ toks[k].kind \in DOMAIN GrammarOperator[level]
                /\ Derives(toks, level, i, k - 1)
                /\ Derives(toks, level + 1, k + 1, j)

\* The tree of a derivable span: the last operator of a level splits the
\* span into the left child, of the same level, and the right child, of the
\* next level.
RECURSIVE Tree(_, _, _, _)
Tree(toks, level, i, j) ==
    IF level = PrimaryLevel
    THEN IF i = j THEN LiteralOf(toks[i]) ELSE Grouping(Tree(toks, 1, i + 1, j - 1))
    ELSE IF level = UnaryLevel
    THEN IF toks[i].kind \in DOMAIN PrefixOperator
         THEN Unary(PrefixOperator[toks[i].kind], Tree(toks, UnaryLevel, i + 1, j))
         ELSE Tree(toks, PrimaryLevel, i, j)
    ELSE IF Derives(toks, level + 1, i, j) THEN Tree(toks, level + 1, i, j)
    ELSE LET k == CHOOSE k \in (i + 1)..(j - 1) :
                      /\ toks[k].kind \in DOMAIN GrammarOperator[level]
                      /\ Derives(toks, level, i, k - 1)
                      /\ Derives(toks, level + 1, k + 1, j)
         IN  Binary(Tree(toks, level, i, k - 1),
                    GrammarOperator[level][toks[k].kind],
                    Tree(toks, level + 1, k + 1, j))

\* The binding level of a node: a Binary node has its operator's level,
\* every other node binds tighter than any Binary node.
NodeLevel(e) ==
    IF e.type = "Binary"
    THEN CHOOSE level \in 1..Len(GrammarOperator) :
             \E kind \in DOMAIN GrammarOperator[level] :
                 GrammarOperator[level][kind] = e.operator
    ELSE UnaryLevel

RECURSIVE RightNested(_)
RightNested(e) ==
    CASE e.type = "Binary" ->
             /\ NodeLevel(e.right) > NodeLevel(e)
             /\ RightNested(e.left)
             /\ RightNested(e.right)
      [] e.type = "Unary" -> RightNested(e.right)
      [] e.type = "Grouping" -> RightNested(e.expr)
      [] OTHER -> TRUE

\* The tokens before the closing EOF.
LastIndex == Len(ptokens) - 1

\* The latest call is the first call on the parser, made at position 0.
FirstCall(op) == pop = op /\ pstart = 0

(***************************************************************************)
(* C9: when the tokens before EOF are derivable from the expression rule,  *)
(* expression() returns, having read all of them, the tree the grammar     *)
(* prescribes: binary levels nest to the left, a higher level binds        *)
(* tighter, prefix operators nest to the right and parentheses become a    *)
(* Grouping; and in every tree expression() returns the right child of a   *)
(* Binary node is never a Binary node of the same or a lower level.        *)
(***************************************************************************)
C9_ExpressionTree ==
    /\ (FirstCall("expression") /\ Derives(ptokens, 1, 1, LastIndex)) =>
           /\ pstatus = "ready"
           /\ pcurrent = LastIndex
           /\ result = Tree(ptokens, 1, 1, LastIndex)
    /\ (pop = "expression" /\ pstatus = "ready") => RightNested(result)

\* 1 - 2 - 3 is Binary(Binary(1, -, 2), -, 3).
C9_Witness ==
    /\ FirstCall("expression")
    /\ pstatus = "ready"
    /\ Kinds(ptokens) = <<"NumberLiteral", "Minus", "NumberLiteral", "Minus",
                          "NumberLiteral", "EOF">>
    /\ result = Binary(Binary(LiteralNumber(ptokens[1].num), "Minus",
                              LiteralNumber(ptokens[3].num)),
                       "Minus", LiteralNumber(ptokens[5].num))

(***************************************************************************)
(* C10: parse() on  var IDENT = expression ;  returns exactly one Var      *)
(* statement with the identifier's text as its name and the tree of the    *)
(* expression as its initializer, and on  var IDENT ;  one Var statement   *)
(* whose initializer is the Nil literal.                                   *)
(***************************************************************************)
VarDeclared ==
    /\ LastIndex >= 3
    /\ ptokens[1].kind = "Var"
    /\ ptokens[2].kind = "Identifier"
    /\ ptokens[LastIndex].kind = "Semicolon"
    /\ \/ LastIndex = 3
       \/ ptokens[3].kind = "Equal" /\ Derives(ptokens, 1, 4, LastIndex - 1)

VarInitializer ==
    IF LastIndex = 3 THEN LiteralNil ELSE Tree(ptokens, 1, 4, LastIndex - 1)

C10_VarDeclaration ==
    (FirstCall("parse") /\ VarDeclared) =>
        /\ pstatus # "panic"
        /\ pstatus = "ready" => statements = <<StmtVar(ptokens[2].text, VarInitializer)>>

\* var age = 26;
C10_Witness ==
    /\ FirstCall("parse")
    /\ pstatus = "ready"
    /\ Kinds(ptokens) = <<"Var", "Identifier", "Equal", "NumberLiteral", "Semicolon", "EOF">>
    /\ statements = <<StmtVar(<<"a", "g", "e">>, LiteralNumber([m |-> 26, e |-> 0]))>>

\* var x;
C10_WitnessNil ==
    /\ FirstCall("parse")
    /\ pstatus = "ready"
    /\ Kinds(ptokens) = <<"Var", "Identifier", "Semicolon", "EOF">>
    /\ statements = <<StmtVar(<<"x">>, LiteralNil)>>

(***************************************************************************)
(* C11: when the token after var is not an Identifier, parse() fails with  *)
(* "Variable declarations require an identifier" whatever follows: it      *)
(* never returns and no other error is reported first.                     *)
(***************************************************************************)
VarWithoutName ==
    /\ FirstCall("parse")
    /\ LastIndex >= 1
    /\ ptokens[1].kind = "Var"
    /\ ptokens[2].kind # "Identifier"

C11_IdentifierCheckedFirst ==
    VarWithoutName =>
        /\ pstatus # "ready"
        /\ pstatus = "panic" => perr = "Variable declarations require an identifier"

(***************************************************************************)
(* C12: the read position never decreases; it moves by exactly one token   *)
(* on a match that succeeds, on a consume that succeeds, on advance()      *)
(* before EOF and on literal(), and not at all on a match or consume that  *)
(* fails; so a call that returns has moved it by exactly the tokens of     *)
(* what it returns.                                                        *)
(***************************************************************************)
\* The sets of kinds the parser matches against, and the kinds it consumes.
MatchSets ==
    {DOMAIN GrammarOperator[level] : level \in 1..Len(GrammarOperator)}
    \cup {DOMAIN PrefixOperator}
    \cup {{k} : k \in {"False", "True", "Nil", "LeftParen", "Var", "Equal"}}

ConsumeKinds == {"RightParen", "Semicolon"}

\* The token at the read position is one to match: not EOF, and of a kind
\* in kinds.
Matches(kinds) ==
    /\ ptokens[pcurrent + 1].kind # "EOF"
    /\ ptokens[pcurrent + 1].kind \in kinds

\* The number of tokens of an expression.
RECURSIVE TokenCount(_)
TokenCount(e) ==
    CASE e.type = "Binary" -> TokenCount(e.left) + 1 + TokenCount(e.right)
      [] e.type = "Unary" -> 1 + TokenCount(e.right)
      [] e.type = "Grouping" -> 2 + TokenCount(e.expr)
      [] OTHER -> 1

\* The numbers of tokens a statement can have been parsed from: a Var
\* statement with the Nil initializer is  var x ;  or  var x = nil ;
StatementTokens(s) ==
    CASE s.type = "Var" ->
             {4 + TokenCount(s.expr)} \cup (IF s.expr = LiteralNil THEN {3} ELSE {})
      [] s.type = "Print" -> {2 + TokenCount(s.expr)}
      [] OTHER -> {1 + TokenCount(s.expr)}

RECURSIVE SumTokens(_)
SumTokens(stmts) ==
    IF stmts = <<>> THEN {0}
    ELSE {n + rest : n \in StatementTokens(Head(stmts)), rest \in SumTokens(Tail(stmts))}

HelpersMoveByOne ==
    (pstatus # "panic" /\ InRange(ptokens, ParserState)) =>
        /\ \A kinds \in MatchSets :
               LET m == match_tokens(ptokens, ParserState, kinds)
               IN  /\ m.matched <=> Matches(kinds)
                   /\ m.p.current = pcurrent + (IF m.matched THEN 1 ELSE 0)
        /\ \A kind \in ConsumeKinds :
               LET c == consume(ptokens, ParserState, kind, "expected")
               IN  IF Matches({kind})
                   THEN c.err = "none" /\ c.current = pcurrent + 1
                   ELSE c.err = "expected" /\ c.current = pcurrent
        /\ p_advance(ptokens, ParserState).current
               = pcurrent + (IF ptokens[pcurrent + 1].kind = "EOF" THEN 0 ELSE 1)
        /\ literal(ptokens, ParserState).p.current = pcurrent + 1

OtherPanics == {"index out of bounds", "Variable declarations require an identifier"}

\* A message names what was expected when it begins with "Expect".
ExpectationMessages ==
    {"Expect ')' after expression", "Expect ';' after value.",
     "Expect ';' after expression.", "Expect ';' after variable declaration"}

C13_ErrorCarriesToken ==
    (pstatus = "panic" /\ perr \notin OtherPanics) =>
        /\ perr \in ExpectationMessages
        /\ pfound = ptokens[pcurrent + 1]

(***************************************************************************)
(* C14: parse() has no error recovery.  A panic ends the parser: no step   *)
(* follows it, so nothing is returned.  parse() returns only at EOF, with  *)
(* every token before it consumed into the statements, and only for a      *)
(* token sequence that is a program of the grammar: a violation in any     *)
(* declaration, with well-formed statements before or after it, means no   *)
(* list is returned.                                                       *)
(***************************************************************************)
\* The index of the first EOF token.
FirstEOF == CHOOSE i \in 1..Len(ptokens) :
                /\ ptokens[i].kind = "EOF"
                /\ \A j \in 1..(i - 1) : ptokens[j].kind # "EOF"

\* toks[i..j] is one declaration of the grammar, closed by the ';' at j.
DerivesDeclaration(toks, i, j) ==
    /\ toks[j].kind = "Semicolon"
    /\ \/ /\ toks[i].kind = "Var"
          /\ i + 2 <= j
          /\ toks[i + 1].kind = "Identifier"
          /\ \/ i + 2 = j
             \/ toks[i + 2].kind = "Equal" /\ Derives(toks, 1, i + 3, j - 1)
       \/ toks[i].kind = "Print" /\ Derives(toks, 1, i + 1, j - 1)
       \/ Derives(toks, 1, i, j - 1)

\* toks[i..n] is a sequence of declarations.
RECURSIVE DerivesProgram(_, _, _)
DerivesProgram(toks, i, n) ==
    \/ i > n
    \/ \E j \in i..n : DerivesDeclaration(toks, i, j) /\ DerivesProgram(toks, j + 1, n)

C14_NoRecovery ==
    /\ [][pstatus # "panic"]_vars
    /\ [][pstatus = "parsing" /\ pstatus' = "ready" =>
              /\ ptokens[pcurrent + 1].kind = "EOF"
              /\ statements' = statements
              /\ pcurrent - pstart \in SumTokens(statements)]_vars
    /\ []((FirstCall("parse") /\ pstatus = "ready") =>
              /\ pcurrent = FirstEOF - 1
              /\ DerivesProgram(ptokens, 1, FirstEOF - 1))

\* A well-formed variable declaration, then an expression statement without
\* its semicolon: the panic ends the parse after one statement.
C14_Witness ==
    /\ FirstCall("parse")
    /\ pstatus = "panic"
    /\ Len(statements) = 1
    /\ statements[1].type = "Var"
    /\ perr = "Expect ';' after expression."
    /\ ~DerivesProgram(ptokens, 1, FirstEOF - 1)

(***************************************************************************)
(* Reference definitions for the interpreter's claims: the operands of the *)
(* expression given to eval, as values, and the integer a Number holds.    *)
(***************************************************************************)
Evaluated == estatus \in {"done", "panic"}

\* The expression is an operator whose operands evaluate to values.
BinaryOnValues ==
    /\ Evaluated
    /\ ast.type = "Binary"
    /\ eval(ast.left).ok
    /\ eval(ast.right).ok

UnaryOnValue ==
    /\ Evaluated
    /\ ast.type = "Unary"
    /\ eval(ast.right).ok

LeftValue == eval(ast.left).v
RightValue == eval(ast.right).v

\* v is the Number k, an integer.
IsInteger(v, k) ==
    /\ v.type = "Number"
    /\ v.num.cls = "finite"
    /\ Signed(v.num) = k * v.num.d

\* e is the literal of a natural number.
IsNatural(e) == e.type = "Literal" /\ e.lit = "Number" /\ e.num.e = 0

ArithmeticOperators == {"Minus", "Multiply", "Divide"}
RelationalOperators == {"GreaterThan", "LessThan", "GreaterThanEqual", "LessThanEqual"}

(***************************************************************************)
(* C15: on evaluated operands an operator returns exactly when the operand *)
(* types are the accepted ones, and panics otherwise: unary Minus takes a  *)
(* Number; Minus, Multiply, Divide and the four relations take two         *)
(* Numbers; Plus takes two Numbers, and gives their sum, or two Strings,   *)
(* and gives the left text followed by the right one.                      *)
(***************************************************************************)
C15_OperandTypes ==
    /\ (UnaryOnValue /\ ast.operator = "Minus") =>
           /\ estatus = "done" <=> RightValue.type = "Number"
           /\ estatus = "done" => evalue.type = "Number"
    /\ (BinaryOnValues /\ ast.operator \in ArithmeticOperators \cup RelationalOperators) =>
           /\ estatus = "done" <=> (LeftValue.type = "Number" /\ RightValue.type = "Number")
           /\ estatus = "done" =>
                  evalue.type = (IF ast.operator \in ArithmeticOperators
                                 THEN "Number" ELSE "Boolean")
    /\ (BinaryOnValues /\ ast.operator = "Plus") =>
           /\ estatus = "done" <=>
                  \/ LeftValue.type = "Number" /\ RightValue.type = "Number"
                  \/ LeftValue.type = "String" /\ RightValue.type = "String"
           /\ (estatus = "done" /\ LeftValue.type = "String") =>
                  evalue = ValueString(LeftValue.text \o RightValue.text)
           /\ (estatus = "done" /\ IsNatural(ast.left) /\ IsNatural(ast.right)) =>
                  IsInteger(evalue, ast.left.num.m + ast.right.num.m)
    /\ estatus = "panic" => evalue = NoValue /\ everr # "none"

\* 1 + "a" panics.
C15_Witness ==
    /\ estatus = "panic"
    /\ ast = Binary(Number(1), "Plus", LiteralString(<<"a">>))
    /\ everr = "You can only add strings or numbers"

\* Two f64 hold the same number: NaN is the same payload as NaN, and the two
\* zeros are one number.
SameNumberPayload(a, b) ==
    CASE a.cls = "nan" -> b.cls = "nan"
      [] a.cls = "inf" -> b.cls = "inf" /\ a.neg = b.neg
      [] OTHER -> b.cls = "finite" /\ Signed(a) * b.d = Signed(b) * a.d

\* The same variant and the same payload.
SameValue(a, b) ==
    /\ a.type = b.type
    /\ a.text = b.text
    /\ a.bool = b.bool
    /\ a.type = "Number" => SameNumberPayload(a.num, b.num)

(***************************************************************************)
(* C16: on evaluated operands EqualEqual and NotEqual always return a      *)
(* Boolean: EqualEqual returns true exactly when the two values are of the *)
(* same variant and have the same payload, NotEqual returns the opposite.  *)
(***************************************************************************)
C16_EqualityTotal ==
    (BinaryOnValues /\ ast.operator \in {"EqualEqual", "NotEqual"}) =>
        /\ estatus = "done"
        /\ evalue = ValueBoolean((ast.operator = "EqualEqual")
                                     <=> SameValue(LeftValue, RightValue))

\* The same statement away from NaN, where it holds.
C16_EqualityWithoutNaN ==
    (/\ BinaryOnValues
     /\ ast.operator \in {"EqualEqual", "NotEqual"}
     /\ ~(LeftValue.type = "Number" /\ is_nan(LeftValue.num) /\ SameValue(LeftValue, RightValue))) =>
        /\ estatus = "done"
        /\ evalue = ValueBoolean((ast.operator = "EqualEqual")
                                     <=> SameValue(LeftValue, RightValue))

\* Only Nil and Boolean(false) are falsy.
Falsy(v) == v.type = "Nil" \/ (v.type = "Boolean" /\ ~v.bool)

(***************************************************************************)
(* C17: Not on an evaluated operand always returns a Boolean, true exactly *)
(* when the operand is Nil or Boolean(false): every Number, zero included, *)
(* and every String, the empty one included, gives false.                  *)
(***************************************************************************)
C17_NotNegatesTruthiness ==
    (UnaryOnValue /\ ast.operator = "Not") =>
        /\ estatus = "done"
        /\ evalue = ValueBoolean(Falsy(RightValue))

\* !0 and !"" are false, !nil is true.
C17_Witness ==
    /\ estatus = "done"
    /\ \/ ast = Unary("Not", Number(0)) /\ evalue = ValueBoolean(FALSE)
       \/ ast = Unary("Not", LiteralString(<<>>)) /\ evalue = ValueBoolean(FALSE)

C17_WitnessNil ==
    /\ estatus = "done"
    /\ ast = Unary("Not", LiteralNil)
    /\ evalue = ValueBoolean(TRUE)

\* v is the value with the variant and the payload of the literal l.
ValueOfLiteral(l, v) ==
    CASE l.lit = "Number" ->
             /\ v.type = "Number"
             /\ v.num.cls = "finite"
             /\ ~v.num.neg
             /\ v.num.n * Pow10(l.num.e) = l.num.m * v.num.d
             /\ v.text = <<>>
      [] l.lit = "String" -> v.type = "String" /\ v.text = l.text
      [] l.lit = "Boolean" -> v.type = "Boolean" /\ v.bool = l.bool /\ v.text = <<>>
      [] l.lit = "Nil" -> v.type = "Nil" /\ v.text = <<>>

(***************************************************************************)
(* C18: a Literal evaluates, without failing, to the Value of its variant  *)
(* with its payload; a Grouping evaluates to what its inner expression     *)
(* evaluates to, a value or a panic.                                       *)
(***************************************************************************)
C18_LiteralAndGrouping ==
    /\ (Evaluated /\ ast.type = "Literal") =>
           estatus = "done" /\ ValueOfLiteral(ast, evalue)
    /\ (Evaluated /\ ast.type = "Grouping") =>
           /\ estatus = "done" <=> eval(ast.expr).ok
           /\ evalue = eval(ast.expr).v
           /\ everr = eval(ast.expr).err
           /\ ast.expr.type = "Literal" => ValueOfLiteral(ast.expr, evalue)

\* The literal 123.2 gives Number(123.2).
C18_Witness ==
    /\ estatus = "done"
    /\ ast = LiteralNumber([m |-> 1232, e |-> 1])
    /\ evalue = ValueNumber(F64("finite", FALSE, 616, 5))

\* ("a") gives String("a").
C18_WitnessGrouping ==
    /\ estatus = "done"
    /\ ast = Grouping(LiteralString(<<"a">>))
    /\ evalue = ValueString(<<"a">>)

\* (-nil) panics as -nil does.
C18_WitnessPanic ==
    /\ estatus = "panic"
    /\ ast = Grouping(Unary("Minus", LiteralNil))
    /\ everr = "You can only negate a number"

(***************************************************************************)
(* Reference definitions for the three stages in a row: ordinary           *)
(* arithmetic read off the characters of the source.  Arith(s, level, i,   *)
(* j) is the set of the integers that the characters i..j of s denote as   *)
(* an expression of the level: 1 a sum or difference, 2 a product, 3 a     *)
(* negation, 4 a number or a parenthesised expression.  The set is empty   *)
(* when the characters are no such expression, and has one member          *)
(* otherwise.  Blanks around an expression do not count.                   *)
(***************************************************************************)
RECURSIVE Arith(_, _, _, _)
Arith(s, level, i, j) ==
    IF i > j THEN {}
    ELSE IF s[i] = " " THEN Arith(s, level, i + 1, j)
    ELSE IF s[j] = " " THEN Arith(s, level, i, j - 1)
    ELSE CASE level = 1 ->
                  Arith(s, 2, i, j)
                  \cup UNION {{a + b : a \in Arith(s, 1, i, k - 1), b \in Arith(s, 2, k + 1, j)} :
                                 k \in {x \in i..j : s[x] = "+"}}
                  \cup UNION {{a - b : a \in Arith(s, 1, i, k - 1), b \in Arith(s, 2, k + 1, j)} :
                                 k \in {x \in i..j : s[x] = "-"}}
           [] level = 2 ->
                  Arith(s, 3, i, j)
                  \cup UNION {{a * b : a \in Arith(s, 2, i, k - 1), b \in Arith(s, 3, k + 1, j)} :
                                 k \in {x \in i..j : s[x] = "*"}}
           [] level = 3 ->
                  Arith(s, 4, i, j)
                  \cup (IF s[i] = "-" THEN {0 - a : a \in Arith(s, 3, i + 1, j)} ELSE {})
           [] OTHER ->
                  IF \A x \in i..j : s[x] \in Digits
                  THEN {NatOf(SubSeq(s, i, j))}
                  ELSE IF s[i] = "(" /\ s[j] = ")"
                  THEN Arith(s, 1, i + 1, j - 1)
                  ELSE {}

\* The integers the whole source denotes: none, or one.
ArithValue == Arith(source, 1, 1, Len(source))

(***************************************************************************)
(* C19: when the source is an arithmetic expression over number literals   *)
(* with + - * unary minus and parentheses, no stage fails, expression()    *)
(* reads every token up to EOF, and eval of the tree returns the Number    *)
(* that ordinary arithmetic gives the source.                              *)
(***************************************************************************)
C19_ArithmeticValue ==
    ArithValue # {} =>
        /\ scan_pc # "panic"
        /\ pstatus # "panic"
        /\ estatus # "panic"
        /\ pop = "expression" => ptokens[pcurrent + 1].kind = "EOF"
        /\ estatus = "done" => \A k \in ArithValue : IsInteger(evalue, k)

\* (5 - (3 - 1)) + -1 gives Number(2).
C19_Witness ==
    /\ estatus = "done"
    /\ Len(source) > MaxSource
    /\ ArithValue = {2}
    /\ \E x \in 1..Len(source) : source[x] = "+"
    /\ evalue = ValueNumber(F64("finite", FALSE, 2, 1))

\* 2-2-2 gives Number(-2): the left difference is taken first.
C19_WitnessLeft ==
    /\ estatus = "done"
    /\ source = <<"2", "-", "2", "-", "2">>
    /\ evalue = ValueNumber(F64("finite", TRUE, 2, 1))

(***************************************************************************)
(* C21: nothing but the execution of a print statement writes to the       *)
(* output.  The parser executes no statement, so whatever literal(),       *)
(* expression() and parse() are given, expressions with a prefix ! or -    *)
(* included, the output stays empty.                                       *)
(***************************************************************************)
C21_ParserWritesNothing == pout = <<>>

(***************************************************************************)
(* Reference definitions for interpret: the print statements among the     *)
(* first k statements of the program, and the line that stands for a       *)
(* value.                                                                  *)
(***************************************************************************)
PrintsUpTo(k) == SelectSeq(SubSeq(program, 1, k), LAMBDA st : st.type = "Print")

\* ln is the rendering of v: true or false, nil, the raw text of a String;
\* of a Number, some text.
Renders(v, ln) ==
    CASE v.type = "Boolean" ->
             ln = (IF v.bool THEN <<"t", "r", "u", "e">> ELSE <<"f", "a", "l", "s", "e">>)
      [] v.type = "Nil" -> ln = <<"n", "i", "l">>
      [] v.type = "String" -> ln = v.text
      [] v.type = "Number" -> ln # <<>> /\ Quote \notin {ln[i] : i \in DOMAIN ln}
      [] OTHER -> FALSE

\* Statement st raises an error when executed.
Raises(st) == st.type \notin {"Print", "Expression"} \/ ~eval(st.expr).ok

\* The output holds one line for each print statement among the executed
\* ones, in their order, each the rendering of its value.
OutputOfExecuted ==
    LET prints == PrintsUpTo(executed)
    IN  /\ Len(output) = Len(prints)
        /\ \A i \in DOMAIN prints : Renders(eval(prints[i].expr).v, output[i])

(***************************************************************************)
(* C22: interpret executes the statements in program order: one after the  *)
(* other from the first; each executed print statement appends one line,   *)
(* the rendering of its value, an expression statement appends nothing;    *)
(* when statement k raises an error the output holds the lines of the      *)
(* print statements before k and nothing is executed afterwards.           *)
(***************************************************************************)
C22_InterpretInOrder ==
    /\ [](xstatus \in {"running", "done", "panic"} =>
              /\ executed <= Len(program)
              /\ \A i \in 1..executed : ~Raises(program[i])
              /\ OutputOfExecuted
              /\ xstatus = "done" => executed = Len(program)
              /\ xstatus = "panic" => executed < Len(program) /\ Raises(program[executed + 1]))
    /\ [][/\ xstatus = "panic" => (executed' = executed /\ output' = output /\ xstatus' = "panic")
          /\ executed' # executed =>
                 /\ executed' = executed + 1
                 /\ output' = (IF program[executed'].type = "Print"
                               THEN Append(output, output'[Len(output')])
                               ELSE output)
          /\ executed' = executed => output' = output]_vars

\* print true; print -"a": one line, then the error of the second statement.
C22_Witness ==
    /\ xstatus = "panic"
    /\ executed = 1
    /\ program = <<StmtPrint(LiteralBoolean(TRUE)), StmtPrint(Unary("Minus", LiteralString(<<"a">>)))>>
    /\ output = <<<<"t", "r", "u", "e">>>>
    /\ xerr = "You can only negate a number"

\* 1; print "a": the expression statement writes nothing, the string is
\* written without quotes.
C22_WitnessDone ==
    /\ xstatus = "done"
    /\ program = <<StmtExpression(Number(1)), StmtPrint(LiteralString(<<"a">>))>>
    /\ output = <<<<"a">>>>

\* scan_tokens() returned and parse() returned the statements of the whole
\* token sequence.
FrontEndDone ==
    /\ scan_pc = "idle"
    /\ calls >= 1
    /\ err = "none"
    /\ ptokens = tokens
    /\ pop = "parse"
    /\ pstatus = "ready"
    /\ perr = "none"
    /\ ptokens[pcurrent + 1].kind = "EOF"

(***************************************************************************)
(* C23: the stages run one after the other over the whole program.         *)
(* Nothing is executed, and so no runtime error arises and no line is      *)
(* written, before scan_tokens() and parse() have returned for the whole   *)
(* source; when the scanner or the parser fails, nothing is ever executed  *)
(* and no line is written, also not for the statements before the error.   *)
(***************************************************************************)
C23_StagesInSequence ==
    /\ (xstatus # "none" \/ output # <<>> \/ executed # 0 \/ xerr # "none") =>
           FrontEndDone /\ program = statements
    /\ (scan_pc = "panic" \/ pstatus = "panic") =>
           xstatus = "none" /\ output = <<>>

\* print 1 + 2; print (1;  the first statement was parsed, the second is a
\* parse error, and nothing is written.
C23_Witness ==
    /\ pstatus = "panic"
    /\ Len(statements) = 1
    /\ statements[1].type = "Print"
    /\ xstatus = "none"
    /\ output = <<>>

\* print 1 + 2; print -"a";  the type error comes with both statements
\* parsed and the line 3 written.
C23_WitnessRuntime ==
    /\ xstatus = "panic"
    /\ Len(statements) = 2
    /\ executed = 1
    /\ output = <<<<"3">>>>

(***************************************************************************)
(* Reference definitions for the order of evaluation: the nodes of an      *)
(* expression in post-order, the left operand before the right one and     *)
(* both before their parent.                                               *)
(***************************************************************************)
RECURSIVE PostOrder(_)
PostOrder(e) ==
    CASE e.type = "Binary" -> PostOrder(e.left) \o PostOrder(e.right) \o <<e>>
      [] e.type = "Unary" -> PostOrder(e.right) \o <<e>>
      [] e.type = "Grouping" -> PostOrder(e.expr) \o <<e>>
      [] OTHER -> <<e>>

\* The operand types the operator of node n takes, as C15 has them.
TakesOperands(n) ==
    CASE n.type = "Unary" ->
             n.operator = "Minus" => eval(n.right).v.type = "Number"
      [] n.type = "Binary" ->
             LET l == eval(n.left).v.type
                 r == eval(n.right).v.type
             IN  CASE n.operator \in ArithmeticOperators \cup RelationalOperators ->
                          l = "Number" /\ r = "Number"
                   [] n.operator = "Plus" ->
                          (l = "Number" /\ r = "Number") \/ (l = "String" /\ r = "String")
                   [] OTHER -> TRUE
      [] OTHER -> TRUE

\* The message of the operator of node n.
MessageOf(n) ==
    CASE n.type = "Unary" -> "You can only negate a number"
      [] n.operator = "Minus" -> "You can only substract numbers"
      [] n.operator = "Plus" -> "You can only add strings or numbers"
      [] OTHER -> "You can only multiply numbers"

\* The positions in post-order of the nodes whose operands have values of
\* the wrong type.
FailingNodes ==
    LET nodes == PostOrder(ast)
    IN  {i \in DOMAIN nodes :
             /\ nodes[i].type \in {"Unary", "Binary"}
             /\ eval(nodes[i].right).ok
             /\ nodes[i].type = "Binary" => eval(nodes[i].left).ok
             /\ ~TakesOperands(nodes[i])}

(***************************************************************************)
(* C24: eval ends in a panic exactly when some node has operands of the    *)
(* wrong type, and the panic is that of the first such node in post-order: *)
(* the operands of a Binary node are evaluated, the left one first, before *)
(* the node's own check, also when the left operand is of a type the       *)
(* operator does not take.                                                 *)
(***************************************************************************)
C24_PostOrder ==
    Evaluated =>
        LET nodes == PostOrder(ast)
            first == CHOOSE i \in FailingNodes : \A j \in FailingNodes : i <= j
        IN  /\ estatus = "panic" <=> FailingNodes # {}
            /\ estatus = "panic" => everr = MessageOf(nodes[first])

\* 2 * (3 / -"m"): the negation fails, not the division or the product.
C24_Witness ==
    /\ estatus = "panic"
    /\ ast = Binary(Number(2), "Multiply",
                    Grouping(Binary(Number(3), "Divide", Unary("Minus", LiteralString(<<"m">>)))))
    /\ everr = "You can only negate a number"

\* "a" * -"b": the left operand is no Number, yet the right one is
\* evaluated and its negation fails.
C24_WitnessLeftInvalid ==
    /\ estatus = "panic"
    /\ ast = Binary(LiteralString(<<"a">>), "Multiply", Unary("Minus", LiteralString(<<"b">>)))
    /\ everr = "You can only negate a number"

\* -nil + (1 - "a"): both operands fail, the left one is reported.
C24_WitnessLeftFirst ==
    /\ estatus = "panic"
    /\ ast = Binary(Unary("Minus", LiteralNil), "Plus",
                    Binary(Number(1), "Minus", LiteralString(<<"a">>)))
    /\ everr = "You can only negate a number"

(***************************************************************************)
(* C25: parse() terminates.  An iteration of its loop that does not abort  *)
(* moves the position forward by at least one token, and a call of parse() *)
(* always comes to its return or to a panic.                               *)
(***************************************************************************)
C25_ParseTerminates ==
    /\ [][(pstatus = "parsing" /\ pstatus' = "parsing") => pcurrent' > pcurrent]_vars
    /\ (pstatus = "parsing") ~> (pstatus \in {"ready", "panic"})

\* parse() returned after two iterations of its loop.
C25_Witness ==
    /\ pop = "parse"
    /\ pstatus = "ready"
    /\ Len(statements) = 2
    /\ pcurrent - pstart >= 4

(***************************************************************************)
(* C26: while parse() or expression() runs on tokens that end with EOF,    *)
(* from a position not after the first EOF, the read position stays an     *)
(* index of the tokens and never moves past the first EOF: advance() at    *)
(* EOF leaves the position where it is, a failure on truncated input is a  *)
(* panic raised by a grammar check and never an out-of-range token access, *)
(* and the tokens after the first EOF are never read.                      *)
(***************************************************************************)
\* The position of the first EOF token, as self.current counts.
FirstEOFIndex == FirstEOF - 1

\* The latest call is of parse() or expression(), begun at or before the
\* first EOF.
RunsBeforeEOF == pop \in {"expression", "parse"} /\ pstart <= FirstEOFIndex

\* The panics of the grammar checks: consume(), the end of primary(), and
\* the identifier test of var_declaration().
GrammarPanics ==
    ExpectationMessages
    \cup {"is this part unreachable?", "Variable declarations require an identifier"}

C26_PositionWithinEOF ==
    RunsBeforeEOF =>
        /\ InRange(ptokens, ParserState)
        /\ pcurrent <= FirstEOFIndex
        /\ perr # "index out of bounds"
        /\ pstatus = "panic" => perr \in GrammarPanics
        /\ pcurrent = FirstEOFIndex =>
               LET a == p_advance(ptokens, ParserState)
               IN  a.current = pcurrent /\ (pcurrent >= 1 => a.err = "none")

\* parse() on `var` followed directly by EOF, with tokens after that EOF:
\* the name is read at EOF, advance() stays there, and the parse ends at
\* the first EOF in the panic of the missing ';'.
C26_Witness ==
    /\ FirstCall("parse")
    /\ ptokens[1].kind = "Var"
    /\ FirstEOFIndex = 1
    /\ LastIndex > FirstEOFIndex
    /\ pstatus = "panic"
    /\ perr = "Expect ';' after variable declaration"
    /\ pfound.kind = "EOF"
    /\ pcurrent = FirstEOFIndex

\* expression() on `1 +` followed directly by EOF ends at EOF in the panic
\* of primary().
C26_WitnessOperand ==
    /\ FirstCall("expression")
    /\ ptokens[1].kind = "NumberLiteral"
    /\ ptokens[2].kind = "Plus"
    /\ FirstEOFIndex = 2
    /\ pstatus = "panic"
    /\ perr = "is this part unreachable?"
    /\ pcurrent = FirstEOFIndex

(***************************************************************************)
(* C27: on every source the character reads of the scanner stay in bounds: *)
(* the cursor never passes the last code point, advance(), peek() and      *)
(* match_char() never unwrap a missing character, and the slice taken for  *)
(* a literal lies on character boundaries; scan_tokens() ends by returning *)
(* and never in one of these panics.                                       *)
(***************************************************************************)
\* The panics of a read out of bounds: chars().nth(i).unwrap() on None, and
\* a byte slice off a character boundary or past the end.
ReadPanics == {"unwrap", "slice"}

C27_ReadsInBounds ==
    /\ current <= Len(source)
    /\ err \notin ReadPanics

====
